---- MODULE Spec2Model ----
(***************************************************************************)
(* Station-to-raster pipeline of scripts/create_gridded_raster.py:         *)
(* load_and_clean_data -> transform_coordinates -> filter_close_points ->  *)
(* create_grid -> interpolate_measurement -> clip_to_component ->          *)
(* write_geotiff, driven by create_measurement_grid.                       *)
(*                                                                         *)
(* Conventions of the model                                                *)
(*  - arrays are 1-based sequences; a 2-D array is a sequence of rows;     *)
(*  - a table cell is <<>> when empty (NaN) and <<v>> when it holds v;     *)
(*  - a pixel is <<>> when NaN, otherwise the tag <<gx, gy>> of the grid   *)
(*    node whose kriging estimate it holds (the estimator itself is the    *)
(*    PyKrige library, outside this repository);                           *)
(*  - station coordinates and the bounding box are the projected values    *)
(*    the pyproj transformer returns (the projection itself is outside     *)
(*    this repository), taken as small integers.                           *)
(***************************************************************************)
EXTENDS Integers, Sequences, FiniteSets, TLC

VARIABLES
    pc,                 \* position of the run inside create_measurement_grid
    error,              \* the exception that ended the run, or NoError
    table,              \* the CSV read by pd.read_csv: [columns, rows]
    variable_name,      \* create_measurement_grid parameter
    component,          \* create_measurement_grid parameter
    interp_method,      \* create_measurement_grid parameter
    resolution,         \* create_measurement_grid parameter
    proj_box,           \* projected bounding box returned by the transformer
    clip_geoms,         \* boundary polygons read from the clip file
    df,                 \* rows kept by load_and_clean_data
    stations,           \* [x, y]: x_stations, y_stations
    bounds,             \* proj_bounds_transformed = <<x_min, x_max, y_min, y_max>>
    filtered,           \* [x, y, values]: output of filter_close_points
    grid,               \* [xx, yy, xx_f64, yy_f64]: meshes of create_grid
    interp,             \* the KrigingInterpolator object built by interpolate_measurement
    krig_calls,         \* PyKrige estimators constructed so far: <<[cls, n, ...]>>
    z_raw,              \* z as returned by krig.execute("grid", ...)
    grid_temp,          \* z after np.flipud
    transform_affine,   \* from_origin(x_min, y_max, resolution, resolution)
    grid_temp_clipped,  \* output of clip_to_component
    pixel_dtype,        \* dtype of grid_temp_clipped
    args_nlags,         \* args.nlags, the --nlags option of the command line
    unit_den,           \* coordinates and resolution count units of 1 / unit_den
    output_file,        \* the raster on disk, or NoFile
    clock,              \* wall clock, in half seconds
    run,                \* 1 in the first run on these inputs, 2 in the repeat
    first_output,       \* the raster the first run wrote, kept for comparison
    drift_x,            \* x argument of a drift function call
    drift_y,            \* y argument of a drift function call
    drift_out,          \* what that call returned or raised
    batch_i,            \* batch driver: entries of FIELD_MAP already passed
    batch_running,      \* batch driver: child processes not yet finished
    batch_log,          \* batch driver: the runs attempted, with their outcome
    api_db,             \* query API: rows of the three tables
    api_request,        \* query API: the GET request being served
    api_response,       \* query API: its response
    agg_files,          \* county aggregator: the raster files that exist
    agg_i,              \* county aggregator: variables already processed
    agg_merged,         \* county aggregator: the local merged_results
    agg_all,            \* county aggregator: the list all_results
    agg_out,            \* county aggregator: how main ended, and its table
    dl_pc,              \* downloader: position inside download_noaa_normals
    dl_file,            \* downloader: chunks of the archive on disk, or Absent
    dl_extracted,       \* downloader: archive members extracted into src_dir
    dl_result,          \* downloader: how the latest invocation ended
    dl_calls            \* downloader: invocations made so far

vars == <<pc, error, table, variable_name, component, interp_method, resolution,
          proj_box, clip_geoms, df, stations, bounds, filtered, grid, interp,
          krig_calls, z_raw, grid_temp, transform_affine, grid_temp_clipped,
          pixel_dtype, args_nlags, unit_den, output_file, clock, run, first_output, drift_x, drift_y, drift_out,
          batch_i, batch_running, batch_log, api_db, api_request, api_response,
          agg_files, agg_i, agg_merged, agg_all, agg_out,
          dl_pc, dl_file, dl_extracted, dl_result, dl_calls>>

envVars == <<clock, run, first_output>>
driftVars == <<drift_x, drift_y, drift_out>>
batchVars == <<batch_i, batch_running, batch_log>>
apiVars == <<api_db, api_request, api_response>>
aggVars == <<agg_files, agg_i, agg_merged, agg_all, agg_out>>
dlVars == <<dl_pc, dl_file, dl_extracted, dl_result, dl_calls>>
sideVars == <<driftVars, batchVars, apiVars, aggVars, dlVars>>

(***************************************************************************)
(* Bounds of the model                                                     *)
(***************************************************************************)
MaxRows == 2
MaxPts == 4
MaxExtent == 4
MaxRes == 3
MaxGeoms == 2
MaxPipeRows == 2
MaxDriftLen == 3
MaxSeedCounties == 3
MaxSeedVariables == 3
MaxApiRows == 2
MaxClock == 3
MaxShape == 2

(***************************************************************************)
(* Generic helpers                                                         *)
(***************************************************************************)
NoError == [type |-> "none", names |-> ""]
NoFile == [exists |-> FALSE]
Unset == <<>>
NaN == <<>>
NoStations == [x |-> <<>>, y |-> <<>>]
NoPoints == [x |-> <<>>, y |-> <<>>, values |-> <<>>]
NoGrid == [xx |-> <<>>, yy |-> <<>>, xx_f64 |-> <<>>, yy_f64 |-> <<>>]
NoInterp == [method |-> "unset"]
NoTransform == [a |-> 0, b |-> 0, c |-> 0, d |-> 0, e |-> 0, f |-> 0]
NoDtype == "none"
NoDrift == [ok |-> FALSE, values |-> <<>>, error |-> NoError]
NoDb == [counties |-> {}, climate_variables |-> {}, climate_normals |-> {}]
NoRequest == [path |-> "none"]
NoResponse == [status |-> 0, body |-> <<>>]
\* a local that has not been assigned
Unbound == [bound |-> FALSE, var |-> "", sources |-> <<>>]
NoOutcome == [status |-> "idle", columns |-> <<>>, error |-> NoError]

Range(s) == {s[k] : k \in 1..Len(s)}

SeqsUpTo(S, n) == UNION {[1..m -> S] : m \in 0..n}

Min(S) == CHOOSE m \in S : \A k \in S : m <= k

\* ascending sequence of the elements of a finite set of integers
RECURSIVE SortedSeq(_)
SortedSeq(S) == IF S = {} THEN <<>> ELSE <<Min(S)>> \o SortedSeq(S \ {Min(S)})

\* a[mask]: the elements of a at the indices in keep, in index order
Take(a, keep) == LET idx == SortedSeq(keep) IN [k \in 1..Len(idx) |-> a[idx[k]]]

(***************************************************************************)
(* load_and_clean_data                                                     *)
(***************************************************************************)
SentinelNoData == 9999
GoodFlags == {"C", "S", "R"}

ValueColumn(v) == <<"", v>>
FlagColumn(v) == <<"comp_flag_", v>>

MissingFlagError(v) == [type |-> "ValueError", names |-> FlagColumn(v)]
MissingValueError(v) == [type |-> "KeyError", names |-> ValueColumn(v)]

\* df.dropna(subset=[variable_name])
DropNa(rows) == SelectSeq(rows, LAMBDA r : r.val # <<>>)
\* df[df["comp_flag_<v>"].isin(["C", "S", "R"])]
FlagIsGood(rows) == SelectSeq(rows, LAMBDA r : r.flag \in GoodFlags)
\* variant: the sentinel rows are not removed
DropSentinelOmitted(rows) == rows

\* df[df[variable_name] != 9999]
DropSentinel(rows) == SelectSeq(rows, LAMBDA r : r.val # <<SentinelNoData>>)

\* variant: the frame is filtered before the flag column is looked for
LoadAndCleanDataFilterFirst(t, v) ==
    IF ValueColumn(v) \notin t.columns
    THEN [ok |-> FALSE, rows |-> <<>>, error |-> [type |-> "KeyError", names |-> ValueColumn(v)]]
    ELSE IF FlagColumn(v) \notin t.columns
    THEN [ok |-> FALSE, rows |-> <<>>, error |-> [type |-> "ValueError", names |-> FlagColumn(v)]]
    ELSE [ok |-> TRUE,
          rows |-> SelectSeq(t.rows, LAMBDA r : /\ r.val # <<>>
                                                /\ r.flag \in GoodFlags
                                                /\ r.val # <<SentinelNoData>>),
          error |-> NoError]

\* [ok, rows, error]: the returned frame, or the exception raised
LoadAndCleanData(t, v) ==
    IF FlagColumn(v) \notin t.columns
    THEN [ok |-> FALSE, rows |-> <<>>, error |-> MissingFlagError(v)]
    ELSE IF ValueColumn(v) \notin t.columns
    THEN [ok |-> FALSE, rows |-> <<>>, error |-> MissingValueError(v)]
    ELSE [ok |-> TRUE, rows |-> DropSentinel(FlagIsGood(DropNa(t.rows))),
          error |-> NoError]

(***************************************************************************)
(* transform_coordinates                                                   *)
(* The pyproj transformer is outside the repository: every row carries in  *)
(* x, y the projected position the transformer returns for its LONGITUDE   *)
(* and LATITUDE, and box is what it returns for the two bounding-box       *)
(* corners.                                                                *)
(***************************************************************************)
TransformCoordinates(rows, box) ==
    [x |-> [k \in 1..Len(rows) |-> rows[k].x],
     y |-> [k \in 1..Len(rows) |-> rows[k].y],
     x_min |-> box[1], x_max |-> box[2], y_min |-> box[3], y_max |-> box[4]]

\* df[variable_name].values
ColumnValues(rows) == [k \in 1..Len(rows) |-> rows[k].val[1]]

(***************************************************************************)
(* filter_close_points                                                     *)
(***************************************************************************)
\* variant: the box taken open, points on its boundary are discarded too
InBoundsOpenBox(x, y, b) ==
    {k \in 1..Len(x) : x[k] > b[1] /\ x[k] < b[2] /\ y[k] > b[3] /\ y[k] < b[4]}

\* (x >= x_min) & (x <= x_max) & (y >= y_min) & (y <= y_max), as an index set
InBounds(x, y, b) ==
    {k \in 1..Len(x) : x[k] >= b[1] /\ x[k] <= b[2] /\ y[k] >= b[3] /\ y[k] <= b[4]}

\* variant: the squared distance is compared with min_distance itself
IsCloseSquaredDistance(x, y, i, k, min_distance) ==
    /\ min_distance > 0
    /\ (x[i] - x[k]) * (x[i] - x[k]) + (y[i] - y[k]) * (y[i] - y[k]) < min_distance

\* np.linalg.norm(points[i] - points[k]) < min_distance, on integers
IsClose(x, y, i, k, min_distance) ==
    /\ min_distance > 0
    /\ (x[i] - x[k]) * (x[i] - x[k]) + (y[i] - y[k]) * (y[i] - y[k])
         < min_distance * min_distance

\* np.where(distances < min_distance)[0] for row i
ClosePoints(x, y, i, min_distance) ==
    {k \in 1..Len(x) : IsClose(x, y, i, k, min_distance)}

Max(S) == CHOOSE m \in S : \A k \in S : m >= k

\* variant: close_points[:-1] is excluded, so the last point of a cluster stays
ScanStepKeepLast(x, y, i, min_distance, filtered_indices) ==
    IF i \in filtered_indices
    THEN filtered_indices
    ELSE LET close_points == {k \in 1..Len(x) :
                                 (x[i] - x[k]) * (x[i] - x[k])
                                   + (y[i] - y[k]) * (y[i] - y[k])
                                   < min_distance * min_distance}
         IN  IF Cardinality(close_points) > 1
             THEN filtered_indices \cup (close_points \ {Max(close_points)})
             ELSE filtered_indices

\* variant: the whole of close_points is excluded, the first point included
ScanStepDropCluster(x, y, i, min_distance, filtered_indices) ==
    IF i \in filtered_indices
    THEN filtered_indices
    ELSE LET close_points == ClosePoints(x, y, i, min_distance)
         IN  IF Cardinality(close_points) > 1
             THEN filtered_indices \cup close_points
             ELSE filtered_indices

\* one iteration of the loop body for index i
ScanStep(x, y, i, min_distance, filtered_indices) ==
    IF i \in filtered_indices
    THEN filtered_indices
    ELSE LET close_points == ClosePoints(x, y, i, min_distance)
         IN  IF Cardinality(close_points) > 1
             THEN filtered_indices \cup (close_points \ {Min(close_points)})
             ELSE filtered_indices

\* filtered_indices after the iterations i, i+1, ..., len(points)
RECURSIVE Scan(_, _, _, _, _)
Scan(x, y, i, min_distance, filtered_indices) ==
    IF i > Len(x)
    THEN filtered_indices
    ELSE Scan(x, y, i + 1, min_distance,
              ScanStep(x, y, i, min_distance, filtered_indices))

\* filtered_indices when the loop reaches index i (before its iteration)
RECURSIVE ScanUpTo(_, _, _, _)
ScanUpTo(x, y, i, min_distance) ==
    IF i <= 1
    THEN {}
    ELSE ScanStep(x, y, i - 1, min_distance, ScanUpTo(x, y, i - 1, min_distance))

\* variant: values is not sliced with in_bounds before the exclusion mask
FilterClosePointsValuesUnsliced(x, y, values, b, min_distance) ==
    LET in_bounds == InBounds(x, y, b)
        xb == Take(x, in_bounds)
        yb == Take(y, in_bounds)
        filtered_indices == Scan(xb, yb, 1, min_distance, {})
        mask == (1..Len(xb)) \ filtered_indices
    IN  [x |-> Take(xb, mask), y |-> Take(yb, mask), values |-> Take(values, mask)]

FilterClosePoints(x, y, values, b, min_distance) ==
    LET in_bounds == InBounds(x, y, b)
        xb == Take(x, in_bounds)
        yb == Take(y, in_bounds)
        vb == Take(values, in_bounds)
        filtered_indices == Scan(xb, yb, 1, min_distance, {})
        mask == (1..Len(xb)) \ filtered_indices
    IN  [x |-> Take(xb, mask), y |-> Take(yb, mask), values |-> Take(vb, mask)]

(***************************************************************************)
(* create_grid                                                             *)
(***************************************************************************)
\* create_grid computes in binary64. A float is held exactly, as a sign and a
\* whole number of units of 2^-UnitBits: every float of magnitude 2^-4 or more
\* is such a number, and so are the sums, differences and small multiples of
\* such floats. The magnitude is three limbs <<a, b, c>> of LimbBits bits,
\* a * LimbBase^2 + b * LimbBase + c
MantissaBits == 53
\* three bits below the mantissa of a float in [1/16, 1/8)
UnitBits == MantissaBits + 3
\* three limbs hold UnitBits bits of fraction and four of whole part
LimbBits == (UnitBits + 4) \div 3
LimbBase == 2^LimbBits

FlZero == [sgn |-> 0, mag |-> <<0, 0, 0>>]
Signed(sgn, mag) == IF mag = <<0, 0, 0>> THEN FlZero ELSE [sgn |-> sgn, mag |-> mag]

\* carries of the lower limbs into the upper ones
MagNorm(m) ==
    LET c  == m[3] % LimbBase
        b1 == m[2] + m[3] \div LimbBase
    IN  << m[1] + b1 \div LimbBase, b1 % LimbBase, c >>

MagAdd(x, y) == MagNorm(<< x[1] + y[1], x[2] + y[2], x[3] + y[3] >>)

MagLess(x, y) ==
    \/ x[1] < y[1]
    \/ x[1] = y[1] /\ x[2] < y[2]
    \/ x[1] = y[1] /\ x[2] = y[2] /\ x[3] < y[3]

\* x - y for y <= x
MagSub(x, y) ==
    LET c  == x[3] - y[3]
        b  == x[2] - y[2] - (IF c < 0 THEN 1 ELSE 0)
        a  == x[1] - y[1] - (IF b < 0 THEN 1 ELSE 0)
    IN  << a, IF b < 0 THEN b + LimbBase ELSE b, IF c < 0 THEN c + LimbBase ELSE c >>

\* x * k for a small whole k
MagMulSmall(x, k) == MagNorm(<< x[1] * k, x[2] * k, x[3] * k >>)

RECURSIVE BitLen(_)
BitLen(n) == IF n = 0 THEN 0 ELSE 1 + BitLen(n \div 2)

MagBitLen(m) ==
    IF m[1] > 0 THEN 2 * LimbBits + BitLen(m[1])
    ELSE IF m[2] > 0 THEN LimbBits + BitLen(m[2])
    ELSE BitLen(m[3])

\* round-to-nearest, ties to even, of the number q + r / den to MantissaBits
\* significant bits (0 <= r < den)
Round53(q, r, den) ==
    LET d    == IF MagBitLen(q) > MantissaBits THEN MagBitLen(q) - MantissaBits ELSE 0
        low  == q[3] % (2^d)
        kept == << q[1], q[2], q[3] - low >>
        lhs  == 2 * (low * den + r)
        rhs  == (2^d) * den
        odd  == (kept[3] \div (2^d)) % 2 = 1
    IN  IF lhs > rhs \/ (lhs = rhs /\ odd)
        THEN MagNorm(<< kept[1], kept[2], kept[3] + 2^d >>)
        ELSE kept

\* the sum of two floats as a number
ExactSum(x, y) ==
    IF x.sgn = 0 THEN y
    ELSE IF y.sgn = 0 THEN x
    ELSE IF x.sgn = y.sgn THEN Signed(x.sgn, MagAdd(x.mag, y.mag))
    ELSE IF MagLess(x.mag, y.mag) THEN Signed(y.sgn, MagSub(y.mag, x.mag))
    ELSE Signed(x.sgn, MagSub(x.mag, y.mag))

FlNeg(x) == [sgn |-> -x.sgn, mag |-> x.mag]
FlRound(x) == Signed(x.sgn, Round53(x.mag, 0, 1))

\* x + y, x - y and i * x in binary64, and x < y
FlAdd(x, y) == FlRound(ExactSum(x, y))
FlSub(x, y) == FlRound(ExactSum(x, FlNeg(y)))
FlMulInt(i, x) == FlRound(Signed(x.sgn, MagMulSmall(x.mag, i)))
FlLess(x, y) == ExactSum(x, FlNeg(y)).sgn = -1

\* the float a decimal argument n / den is read as: the binary64 number
\* nearest to it
FlOf(n, den) ==
    LET a  == IF n < 0 THEN -n ELSE n
        t1 == a * 2^(UnitBits - 2 * LimbBits)
        q1 == t1 \div den
        t2 == (t1 % den) * LimbBase
        q2 == t2 \div den
        t3 == (t2 % den) * LimbBase
        q3 == t3 \div den
    IN  Signed(IF n < 0 THEN -1 ELSE 1, Round53(<<q1, q2, q3>>, t3 % den, den))

RECURSIVE FloorQuotient(_, _, _)
\* the largest whole k <= D / S, searched from k on
FloorQuotient(D, S, k) ==
    IF MagLess(D, MagMulSmall(S, k + 1)) THEN k ELSE FloorQuotient(D, S, k + 1)

\* ceil of the binary64 quotient D / S of two positive floats. With N the whole
\* part and R the remainder, the quotient N + R / S rounds down to N, and the
\* ceil is N, when R / S is below half a unit in the last place of N, 2^-t (or
\* equal to it, N's mantissa being even)
CeilQuotient(D, S) ==
    LET N == FloorQuotient(D, S, 0)
        R == MagSub(D, MagMulSmall(S, N))
        t == MantissaBits - (BitLen(N) - 1)
        \* S / 2^t: whole part and whether anything is left
        Q == << 0, 0, S[1] \div 2^(t - 2 * LimbBits) >>
        left == S[1] % 2^(t - 2 * LimbBits) # 0 \/ S[2] # 0 \/ S[3] # 0
        even == BitLen(N) < MantissaBits \/ N % 2 = 0
    IN  IF R = <<0, 0, 0>> THEN N
        ELSE IF N = 0 THEN 1
        ELSE IF MagLess(R, Q) \/ (R = Q /\ (left \/ even)) THEN N
        ELSE N + 1

\* len(np.arange(start, stop, step)) = ceil((stop - start) / step), step > 0
ArangeLen(start, stop, step) ==
    LET span == FlSub(stop, start)
    IN  IF span.sgn <= 0 THEN 0 ELSE CeilQuotient(span.mag, step.mag)

\* np.arange(start, stop, step): start, start + step, and then
\* start + i * delta with delta = (start + step) - start
Arange(start, stop, step) ==
    LET next  == FlAdd(start, step)
        delta == FlSub(next, start)
    IN  [k \in 1..ArangeLen(start, stop, step) |->
            IF k = 1 THEN start
            ELSE IF k = 2 THEN next
            ELSE FlAdd(start, FlMulInt(k - 1, delta))]

\* the decimal a node of an axis stands for, as a multiple of 1 / den: node k
\* of np.arange(lo / den, ..., res / den) is lo + k * res up to rounding
NodesOf(axis, lo, res) == [k \in 1..Len(axis) |-> lo + (k - 1) * res]

\* np.meshgrid(grid_x, grid_y): shape (len(grid_y), len(grid_x))
MeshX(grid_x, grid_y) == [j \in 1..Len(grid_y) |-> grid_x]
MeshY(grid_x, grid_y) == [j \in 1..Len(grid_y) |-> [i \in 1..Len(grid_x) |-> grid_y[j]]]

\* xx, yy = np.meshgrid(grid_x, grid_y). xx_f64 and yy_f64 are the arrays the
\* code returns, float for float; xx and yy name each node by its decimal
Meshes(grid_x, grid_y, b, res) ==
    LET nx == NodesOf(grid_x, b[1], res)
        ny == NodesOf(grid_y, b[3], res)
    IN  [xx |-> MeshX(nx, ny), yy |-> MeshY(nx, ny),
         xx_f64 |-> MeshX(grid_x, grid_y), yy_f64 |-> MeshY(grid_x, grid_y)]

\* variant: the stop of np.arange is the max bound itself
CreateGridStopAtMax(b, res, den) ==
    LET step   == FlOf(res, den)
        grid_x == Arange(FlOf(b[1], den), FlOf(b[2], den), step)
        grid_y == Arange(FlOf(b[3], den), FlOf(b[4], den), step)
    IN  Meshes(grid_x, grid_y, b, res)

\* create_grid(proj_bounds, resolution) on the floats b / den and res / den
CreateGrid(b, res, den) ==
    LET step   == FlOf(res, den)
        grid_x == Arange(FlOf(b[1], den), FlAdd(FlOf(b[2], den), step), step)
        grid_y == Arange(FlOf(b[3], den), FlAdd(FlOf(b[4], den), step), step)
    IN  Meshes(grid_x, grid_y, b, res)

\* np.unique(mesh): the sorted distinct elements of a 2-D array
Unique(mesh) == SortedSeq(UNION {Range(mesh[j]) : j \in 1..Len(mesh)})

(***************************************************************************)
(* KrigingInterpolator                                                     *)
(***************************************************************************)
DefaultNlags == 20
\* parse_arguments: default of --nlags
ArgDefaultNlags == 20
DefaultComponent == "CONUS"
DriftLatitude == "_drift_latitude"
DriftElevation == "_drift_elevation"
\* drift_terms = None is the empty sequence of drift functions
NoDriftTerms == <<>>

DemFile(comp) ==
    IF comp = "Alaska" THEN "data/ancillary/alaska_30as_dem.tif"
    ELSE IF comp = "Hawaii" THEN "data/ancillary/hawaii_30as_dem.tif"
    ELSE "data/ancillary/nation_30as_dem.tif"

DriftTerms(method, comp) ==
    IF method = "universal"
    THEN IF comp = "Puerto Rico"
         THEN <<DriftLatitude>>
         ELSE <<DriftLatitude, DriftElevation>>
    ELSE NoDriftTerms

\* KrigingInterpolator.__init__
KrigingInterpolatorInit(method, variogram_model, nlags, weight, comp) ==
    [method |-> method, variogram_model |-> variogram_model, nlags |-> nlags,
     weight |-> weight, dem_file |-> DemFile(comp),
     drift_terms |-> DriftTerms(method, comp)]

\* numpy true division of float arrays, elementwise: the quotient num / den is
\* the pair <<num, den>>; 0 / 0 is nan and n / 0 is the infinity <<n, 0>>, with
\* a RuntimeWarning and no exception
TrueDivide(num, den) == IF den = 0 /\ num = 0 THEN NaN ELSE <<num, den>>

EmptyReductionError == [type |-> "ValueError", names |-> "zero-size array"]

\* KrigingInterpolator._drift_latitude(x, y): [ok, values, error]
DriftLatitudeValues(y) ==
    IF Len(y) = 0
    THEN [ok |-> FALSE, values |-> <<>>, error |-> EmptyReductionError]
    ELSE LET lo == Min(Range(y))
             hi == Max(Range(y))
         IN  [ok |-> TRUE,
              values |-> [k \in 1..Len(y) |-> TrueDivide(y[k] - lo, hi - lo)],
              error |-> NoError]

MissingAttributeError(attr) == [type |-> "AttributeError", names |-> attr]
DemNotProvidedError ==
    [type |-> "ValueError",
     names |-> "DEM filepath not provided for elevation drift calculation."]

\* a DEM file as rasterio sees it: whether it can be opened, and the band 1
\* value it holds at a point, slope_x * x + slope_y * y
DemSample(dem, xi, yi) == dem.slope_x * xi + dem.slope_y * yi

DemOpenError(path) == [type |-> "RasterioIOError", names |-> path]

\* (e - min) / (max - min) over an array, as numpy computes it: np.min of an
\* empty array raises, min = max gives nan
NormalizeRange(e) ==
    IF Len(e) = 0
    THEN [ok |-> FALSE, values |-> <<>>, error |-> EmptyReductionError]
    ELSE LET lo == Min(Range(e))
             hi == Max(Range(e))
         IN  [ok |-> TRUE,
              values |-> [k \in 1..Len(e) |-> TrueDivide(e[k] - lo, hi - lo)],
              error |-> NoError]

\* KrigingInterpolator._drift_elevation(x, y): [ok, values, error, dem], dem the
\* file opened with rasterio.open. It reads self.dem_filepath, and an instance
\* has the attributes __init__ assigned; the coordinate pairs are zip(x, y),
\* the elevations sampled at them are normalised to [0, 1]
DriftElevationValues(self, x, y, dem) ==
    IF "dem_filepath" \notin DOMAIN self
    THEN [ok |-> FALSE, values |-> <<>>, error |-> MissingAttributeError("dem_filepath"),
          dem |-> ""]
    ELSE IF self.dem_filepath = ""
    THEN [ok |-> FALSE, values |-> <<>>, error |-> DemNotProvidedError, dem |-> ""]
    ELSE IF ~dem.exists
    THEN [ok |-> FALSE, values |-> <<>>, error |-> DemOpenError(self.dem_filepath),
          dem |-> ""]
    ELSE LET n          == IF Len(x) < Len(y) THEN Len(x) ELSE Len(y)
             elevations == [k \in 1..n |-> DemSample(dem, x[k], y[k])]
             norm       == NormalizeRange(elevations)
         IN  [ok |-> norm.ok, values |-> norm.values, error |-> norm.error,
              dem |-> self.dem_filepath]

\* z of krig.execute("grid", gridx, gridy): shape (len(gridy), len(gridx)),
\* z[j][i] the estimate at node (gridx[i], gridy[j])
KrigExecute(gridx, gridy) ==
    [j \in 1..Len(gridy) |-> [i \in 1..Len(gridx) |-> <<gridx[i], gridy[j]>>]]

\* the PyKrige estimator a call constructs: class, number of input points,
\* and the settings handed over
KrigCall(cls, self, x) ==
    [cls |-> cls, n |-> Len(x), variogram_model |-> self.variogram_model,
     nlags |-> self.nlags, weight |-> self.weight,
     drift_terms |-> IF cls = "UniversalKriging" THEN self.drift_terms
                     ELSE NoDriftTerms]

UnsupportedMethodError(method) == [type |-> "ValueError", names |-> method]
LibraryError == [type |-> "PyKrigeError", names |-> "kriging"]

\* variant: an unknown method falls through to ordinary kriging
InterpolateFallsThrough(self, x, y, values, gridx, gridy, lib_ok) ==
    [ok |-> lib_ok, z |-> IF lib_ok THEN KrigExecute(gridx, gridy) ELSE Unset,
     error |-> IF lib_ok THEN NoError ELSE LibraryError,
     calls |-> <<KrigCall(IF self.method = "universal" THEN "UniversalKriging"
                          ELSE "OrdinaryKriging", self, x)>>]

\* KrigingInterpolator.interpolate; lib_ok is the outcome of the PyKrige
\* estimator (it returns, or it raises while fitting or solving).
\* [ok, z, error, calls]: calls are the estimators constructed on the way.
Interpolate(self, x, y, values, gridx, gridy, lib_ok) ==
    IF self.method = "ordinary"
    THEN [ok |-> lib_ok, z |-> IF lib_ok THEN KrigExecute(gridx, gridy) ELSE Unset,
          error |-> IF lib_ok THEN NoError ELSE LibraryError,
          calls |-> <<KrigCall("OrdinaryKriging", self, x)>>]
    ELSE IF self.method = "universal"
    THEN [ok |-> lib_ok, z |-> IF lib_ok THEN KrigExecute(gridx, gridy) ELSE Unset,
          error |-> IF lib_ok THEN NoError ELSE LibraryError,
          calls |-> <<KrigCall("UniversalKriging", self, x)>>]
    ELSE [ok |-> FALSE, z |-> Unset, error |-> UnsupportedMethodError(self.method),
          calls |-> <<>>]

\* variant: the rows are left in kriging order
FlipUdOmitted(z) == z

\* np.flipud
FlipUd(z) == [r \in 1..Len(z) |-> z[Len(z) + 1 - r]]

\* interpolate_measurement: [ok, krig, z_raw, z, error, calls]
InterpolateMeasurement(px, py, values, grid_coords, method, variogram_model, lib_ok) ==
    LET unique_x == Unique(grid_coords.xx)
        unique_y == Unique(grid_coords.yy)
        krig == KrigingInterpolatorInit(method, variogram_model, DefaultNlags,
                                        TRUE, DefaultComponent)
        res == Interpolate(krig, px, py, values, unique_x, unique_y, lib_ok)
    IN  [ok |-> res.ok, krig |-> krig, z_raw |-> res.z,
         z |-> IF res.ok THEN FlipUd(res.z) ELSE Unset,
         error |-> res.error, calls |-> res.calls]

(***************************************************************************)
(* clip_to_component                                                       *)
(***************************************************************************)
\* rasterio.transform.from_origin(west, north, xsize, ysize)
FromOrigin(west, north, xsize, ysize) ==
    [a |-> xsize, b |-> 0, c |-> west, d |-> 0, e |-> 0 - ysize, f |-> north]

\* the footprint the transform assigns to the pixel in row r, column c (1-based)
Footprint(t, r, c) ==
    [x0 |-> t.c + t.a * (c - 1), x1 |-> t.c + t.a * c,
     y0 |-> t.f + t.e * r,       y1 |-> t.f + t.e * (r - 1)]

\* a boundary polygon is an axis-parallel rectangle [x0, x1, y0, y1]; it
\* touches a pixel when the two share more than an edge or a corner
Touches(g, cell) ==
    g.x0 < cell.x1 /\ cell.x0 < g.x1 /\ g.y0 < cell.y1 /\ cell.y0 < g.y1

\* the polygon holds the centre of the pixel (coordinates doubled)
HoldsCentre(g, cell) ==
    /\ 2 * g.x0 <= cell.x0 + cell.x1 /\ cell.x0 + cell.x1 <= 2 * g.x1
    /\ 2 * g.y0 <= cell.y0 + cell.y1 /\ cell.y0 + cell.y1 <= 2 * g.y1

\* rasterio.features.geometry_mask
GeometryMask(geoms, height, width, t, all_touched, invert) ==
    [r \in 1..height |-> [c \in 1..width |->
        LET cell == Footprint(t, r, c)
            burned == \E g \in geoms :
                          IF all_touched THEN Touches(g, cell) ELSE HoldsCentre(g, cell)
        IN  IF invert THEN burned ELSE ~burned]]

Width(a) == IF Len(a) = 0 THEN 0 ELSE Len(a[1])

\* variant: the mask is built without invert=True
ClipToComponentNotInverted(grid_data, t, geoms) ==
    LET mask == GeometryMask(geoms, Len(grid_data), Width(grid_data), t, TRUE, FALSE)
    IN  [r \in 1..Len(grid_data) |-> [c \in 1..Width(grid_data) |->
            IF mask[r][c] THEN grid_data[r][c] ELSE NaN]]

\* np.where(mask, grid_data, np.nan)
ClipToComponent(grid_data, t, geoms) ==
    LET mask == GeometryMask(geoms, Len(grid_data), Width(grid_data), t, TRUE, TRUE)
    IN  [r \in 1..Len(grid_data) |-> [c \in 1..Width(grid_data) |->
            IF mask[r][c] THEN grid_data[r][c] ELSE NaN]]

(***************************************************************************)
(* create_measurement_grid: region table                                   *)
(***************************************************************************)
Projection(comp) ==
    IF comp = "Alaska" THEN "EPSG:3338"
    ELSE IF comp = "Hawaii" THEN "EPSG:3759"
    ELSE IF comp = "PR" THEN "EPSG:3991"
    ELSE "EPSG:5072"

ClipFile(comp) ==
    IF comp = "Alaska" THEN "data/ancillary/alaska_5m_epsg3338.gpkg"
    ELSE IF comp = "Hawaii" THEN "data/ancillary/hawaii_5m_epsg3759.gpkg"
    ELSE IF comp = "PR" THEN "data/ancillary/puerto_rico_5m_epsg3991.gpkg"
    ELSE "data/ancillary/nation_5m_lower48_epsg5072.gpkg"

(***************************************************************************)
(* write_geotiff                                                           *)
(***************************************************************************)
FloatingDtypes == {"float16", "float32", "float64"}
\* np.issubdtype(dtype, np.floating)
IsFloating(dtype) == dtype \in FloatingDtypes

\* an integer as float32: exact up to 2^24, then rounded to the nearest even
\* multiple of the spacing 2 (ties to the even mantissa), for |n| < 2^25
Float32Of(n) ==
    LET a == IF n < 0 THEN 0 - n ELSE n
        r == IF a <= 16777216 \/ a % 2 = 0 THEN a
             ELSE IF (a + 1) % 4 = 0 THEN a + 1 ELSE a - 1
    IN  IF n < 0 THEN 0 - r ELSE r

\* grid_data.astype("float32") of a non-floating array: the pixel n becomes
\* the float <<Float32Of(n)>>
AsTypeFloat32(grid_data) ==
    [r \in 1..Len(grid_data) |-> [c \in 1..Len(grid_data[r]) |->
        <<Float32Of(grid_data[r][c])>>]]

KnownProjections == {"EPSG:5072", "EPSG:3338", "EPSG:3759", "EPSG:3991"}
Desc(projection) ==
    IF projection = "EPSG:5072" THEN "CONUS Albers Equal Area (EPSG:5072)"
    ELSE IF projection = "EPSG:3338" THEN "Alaska Albers Equal Area (EPSG:3338)"
    ELSE IF projection = "EPSG:3759" THEN "Hawaii zone 3 (ftUS) (EPSG:3759)"
    ELSE "Puerto Rico (EPSG:4139)"

\* pd.Timestamp.now().strftime("%Y:%m:%d %H:%M:%S"): whole seconds of the clock
FormatTimestamp(now) == now \div 2

NoTags == [written |-> FALSE]
\* the tags with the wall clock also recorded in the software tag
TagsStampedSoftware(now, projection) ==
    [written |-> TRUE,
     TIFFTAG_DATETIME |-> FormatTimestamp(now),
     TIFFTAG_DOCUMENTNAME |-> "1991-2020 Climate Normal Grid",
     TIFFTAG_SOFTWARE |-> <<"create_gridded_raster.py", FormatTimestamp(now)>>,
     units |-> "degrees Fahrenheit",
     source |-> "NOAA NCEI 1991-2020 Climate Normals",
     projection |-> Desc(projection)]
Tags(now, projection) ==
    [written |-> TRUE,
     TIFFTAG_DATETIME |-> FormatTimestamp(now),
     TIFFTAG_DOCUMENTNAME |-> "1991-2020 Climate Normal Grid",
     TIFFTAG_SOFTWARE |-> "create_gridded_raster.py",
     units |-> "degrees Fahrenheit",
     source |-> "NOAA NCEI 1991-2020 Climate Normals",
     projection |-> Desc(projection)]

UnboundDescError == [type |-> "UnboundLocalError", names |-> "desc"]

\* write_geotiff without the astype("float32") of lines 347-348
WriteGeotiffAsGiven(grid_data, dtype, t, projection, now) ==
    LET file == [exists |-> TRUE, height |-> Len(grid_data),
                 width |-> Width(grid_data), count |-> 1, dtype |-> dtype,
                 crs |-> projection, transform |-> t, nodata |-> NaN,
                 band1 |-> grid_data, tags |-> NoTags]
    IN  IF projection \in KnownProjections
        THEN [ok |-> TRUE, file |-> [file EXCEPT !.tags = Tags(now, projection)],
              error |-> NoError]
        ELSE [ok |-> FALSE, file |-> file, error |-> UnboundDescError]

\* write_geotiff: [ok, file, error]; file is what rasterio.open(..., "w", ...),
\* dst.write and dst.update_tags leave on disk
WriteGeotiff(grid_data, dtype, t, projection, now) ==
    LET data == IF IsFloating(dtype) THEN grid_data ELSE AsTypeFloat32(grid_data)
        out_dtype == IF IsFloating(dtype) THEN dtype ELSE "float32"
        file == [exists |-> TRUE, height |-> Len(data), width |-> Width(data),
                 count |-> 1, dtype |-> out_dtype, crs |-> projection,
                 transform |-> t, nodata |-> NaN, band1 |-> data, tags |-> NoTags]
    IN  IF projection \in KnownProjections
        THEN [ok |-> TRUE, file |-> [file EXCEPT !.tags = Tags(now, projection)],
              error |-> NoError]
        ELSE [ok |-> FALSE, file |-> file, error |-> UnboundDescError]

(***************************************************************************)
(* create_measurement_grid, one action per stage                           *)
(***************************************************************************)
DefaultVariogramModel == "spherical"

inputVars == <<table, variable_name, args_nlags, unit_den, component, interp_method, resolution,
               proj_box, clip_geoms>>

\* df = load_and_clean_data(input_file, variable_name)
LoadStage ==
    /\ pc = "start"
    /\ LET r == LoadAndCleanData(table, variable_name)
       IN  /\ pc' = IF r.ok THEN "loaded" ELSE "failed"
           /\ df' = r.rows
           /\ error' = r.error
    /\ UNCHANGED <<sideVars, envVars, pixel_dtype, inputVars, stations, bounds, filtered, grid, interp, krig_calls,
                   z_raw, grid_temp, transform_affine, grid_temp_clipped, output_file>>

\* transform_coordinates(df, proj, proj_bounds)
TransformStage ==
    /\ pc = "loaded"
    /\ LET t == TransformCoordinates(df, proj_box)
       IN  /\ stations' = [x |-> t.x, y |-> t.y]
           /\ bounds' = <<t.x_min, t.x_max, t.y_min, t.y_max>>
    /\ pc' = "transformed"
    /\ UNCHANGED <<sideVars, envVars, pixel_dtype, inputVars, error, df, filtered, grid, interp, krig_calls, z_raw,
                   grid_temp, transform_affine, grid_temp_clipped, output_file>>

\* filter_close_points(x_stations, y_stations, values, bounds, min_distance=resolution)
DeclusterStage ==
    /\ pc = "transformed"
    /\ filtered' = FilterClosePoints(stations.x, stations.y, ColumnValues(df),
                                     bounds, resolution)
    /\ pc' = "declustered"
    /\ UNCHANGED <<sideVars, envVars, pixel_dtype, inputVars, error, df, stations, bounds, grid, interp, krig_calls,
                   z_raw, grid_temp, transform_affine, grid_temp_clipped, output_file>>

\* create_grid((x_min, x_max, y_min, y_max), resolution)
GridStage ==
    /\ pc = "declustered"
    /\ grid' = CreateGrid(bounds, resolution, unit_den)
    /\ pc' = "gridded"
    /\ UNCHANGED <<sideVars, envVars, pixel_dtype, inputVars, error, df, stations, bounds, filtered, interp,
                   krig_calls, z_raw, grid_temp, transform_affine,
                   grid_temp_clipped, output_file>>

\* interpolate_measurement(points, values, grid, method, variogram_model).
\* PyKrige cannot return on zero input points (its constructor reduces over
\* the coordinate arrays), so on them the estimator's outcome is an exception.
InterpolateStage ==
    /\ pc = "gridded"
    /\ \E lib_ok \in BOOLEAN :
         /\ lib_ok => Len(filtered.x) > 0
         /\ LET r == InterpolateMeasurement(filtered.x, filtered.y, filtered.values,
                                            grid, interp_method,
                                            DefaultVariogramModel, lib_ok)
            IN  /\ interp' = r.krig
                /\ krig_calls' = krig_calls \o r.calls
                /\ z_raw' = r.z_raw
                /\ grid_temp' = r.z
                /\ error' = r.error
                /\ pc' = IF r.ok THEN "interpolated" ELSE "failed"
    /\ UNCHANGED <<sideVars, envVars, pixel_dtype, inputVars, df, stations, bounds, filtered, grid,
                   transform_affine, grid_temp_clipped, output_file>>

\* from_origin(x_min, y_max, resolution, resolution); clip_to_component(...);
\* np.where on the float64 kriging output and np.nan yields a float64 array
ClipStage ==
    /\ pc = "interpolated"
    /\ transform_affine' = FromOrigin(bounds[1], bounds[4], resolution, resolution)
    /\ grid_temp_clipped' = ClipToComponent(grid_temp, transform_affine', clip_geoms)
    /\ pixel_dtype' = "float64"
    /\ pc' = "clipped"
    /\ UNCHANGED <<sideVars, envVars, inputVars, error, df, stations, bounds, filtered, grid, interp,
                   krig_calls, z_raw, grid_temp, output_file>>

\* variant: the raster is written as soon as the estimate exists, clipped or not
WriteStageBeforeClip ==
    /\ pc \in {"interpolated", "clipped"}
    /\ LET w == WriteGeotiff(IF pc = "clipped" THEN grid_temp_clipped ELSE grid_temp,
                              "float64", transform_affine, Projection(component), clock)
       IN  /\ output_file' = w.file
           /\ error' = w.error
           /\ pc' = IF w.ok THEN "written" ELSE "failed"
    /\ UNCHANGED <<sideVars, envVars, pixel_dtype, inputVars, df, stations, bounds, filtered, grid, interp,
                   krig_calls, z_raw, grid_temp, transform_affine, grid_temp_clipped>>

\* write_geotiff(output_file, grid_temp_clipped, transform_affine, projection=proj)
WriteStage ==
    /\ pc = "clipped"
    /\ LET w == WriteGeotiff(grid_temp_clipped, pixel_dtype, transform_affine,
                              Projection(component), clock)
       IN  /\ output_file' = w.file
           /\ error' = w.error
           /\ pc' = IF w.ok THEN "written" ELSE "failed"
    /\ UNCHANGED <<sideVars, envVars, pixel_dtype, inputVars, df, stations, bounds, filtered, grid, interp,
                   krig_calls, z_raw, grid_temp, transform_affine, grid_temp_clipped>>

(***************************************************************************)
(* Inputs                                                                  *)
(***************************************************************************)
Variable == "ANN-TAVG-NORMAL"
OtherVariable == "ANN-PRCP-NORMAL"
Components == {"CONUS", "Hawaii", "Alaska", "PR"}
Methods == {"ordinary", "universal", "simple"}

\* row k of a table: station k (the frame's index), its cell and flag for the
\* variable, and its projected position
Row(k, val, flag, x, y) == [id |-> k, val |-> val, flag |-> flag, x |-> x, y |-> y]

FullColumns == {ValueColumn(Variable), FlagColumn(Variable)}

\* the run has produced nothing yet
Fresh ==
    /\ error = NoError
    /\ df = Unset
    /\ stations = NoStations
    /\ bounds = Unset
    /\ filtered = NoPoints
    /\ grid = NoGrid
    /\ interp = NoInterp
    /\ krig_calls = <<>>
    /\ z_raw = Unset
    /\ grid_temp = Unset
    /\ transform_affine = NoTransform
    /\ grid_temp_clipped = Unset
    /\ pixel_dtype = NoDtype
    /\ output_file = NoFile

\* no earlier run, and the clock at its origin
EnvInit ==
    /\ clock = 0
    /\ run = 1
    /\ first_output = NoFile

DriftIdle == drift_x = <<>> /\ drift_y = <<>> /\ drift_out = NoDrift
BatchIdle == batch_i = 0 /\ batch_running = {} /\ batch_log = <<>>
ApiIdle == api_db = NoDb /\ api_request = NoRequest /\ api_response = NoResponse
AggIdle ==
    /\ agg_files = {} /\ agg_i = 0 /\ agg_merged = Unbound /\ agg_all = <<>>
    /\ agg_out = NoOutcome
\* src_dir before the first invocation of download_noaa_normals
Absent == <<>>
DlIdle ==
    /\ dl_pc = "idle" /\ dl_file = Absent /\ dl_extracted = 0
    /\ dl_result = "none" /\ dl_calls = 0

\* --- the whole pipeline ---------------------------------------------------
\* cells of a station row: value, flag, projected x and y
PipeCells ==
    { <<<<50>>, "C", 0, 0>>, <<<<60>>, "S", 1, 1>>,
      <<<<70>>, "R", 5, 5>>, <<<<SentinelNoData>>, "C", 1, 0>> }

RowsOf(s) == [k \in 1..Len(s) |-> Row(k, s[k][1], s[k][2], s[k][3], s[k][4])]

ColumnSets ==
    { FullColumns, {ValueColumn(Variable)}, {FlagColumn(Variable)}, {},
      {ValueColumn(Variable), FlagColumn(OtherVariable)} }

PipeTables ==
    { [columns |-> cols, rows |-> RowsOf(s)] :
        cols \in ColumnSets, s \in SeqsUpTo(PipeCells, MaxPipeRows) }

PipeBoxes == { <<0, 2, 0, 2>>, <<0, 1, 0, 3>>, <<0, 3, 0, 1>> }

Rect(x0, x1, y0, y1) == [x0 |-> x0, x1 |-> x1, y0 |-> y0, y1 |-> y1]

PipeGeoms == { {Rect(0, 1, -1, 4)}, {Rect(-1, 5, -1, 5)} }

Init ==
    /\ pc = "start"
    /\ table \in PipeTables
    /\ variable_name = Variable
    /\ args_nlags = ArgDefaultNlags
    /\ unit_den = 1
    /\ component \in Components
    /\ interp_method \in Methods
    /\ resolution \in 1..2
    /\ proj_box \in PipeBoxes
    /\ clip_geoms \in PipeGeoms
    /\ Fresh
    /\ EnvInit
    /\ DriftIdle
    /\ BatchIdle
    /\ ApiIdle
    /\ AggIdle
    /\ DlIdle

Next ==
    \/ LoadStage
    \/ TransformStage
    \/ DeclusterStage
    \/ GridStage
    \/ InterpolateStage
    \/ ClipStage
    \/ WriteStage

Spec == Init /\ [][Next]_vars

\* --- load_and_clean_data on its own ---------------------------------------
LoadValues == { <<>>, <<SentinelNoData>>, <<50>> }
LoadFlags == { "C", "S", "R", "P", "" }
LoadCells == { <<v, f, 0, 0>> : v \in LoadValues, f \in LoadFlags }

LoadTables ==
    { [columns |-> cols, rows |-> RowsOf(s)] :
        cols \in ColumnSets, s \in SeqsUpTo(LoadCells, MaxRows) }

InitLoad ==
    /\ pc = "start"
    /\ table \in LoadTables
    /\ variable_name = Variable
    /\ args_nlags = ArgDefaultNlags
    /\ unit_den = 1
    /\ component = "CONUS"
    /\ interp_method = "ordinary"
    /\ resolution = 1
    /\ proj_box = <<0, 2, 0, 2>>
    /\ clip_geoms = {Rect(-1, 5, -1, 5)}
    /\ Fresh
    /\ EnvInit
    /\ DriftIdle
    /\ BatchIdle
    /\ ApiIdle
    /\ AggIdle
    /\ DlIdle

SpecLoad == InitLoad /\ [][LoadStage]_vars

\* --- filter_close_points on its own ----------------------------------------
Sites == (0..2) \X (0..1)
FilterBoxes == { <<0, 2, 0, 1>>, <<0, 2, 0, 0>>, <<1, 2, 0, 1>>, <<0, 1, 1, 1>> }
MinDistances == {1, 2, 3}

\* station k carries the value 10 * k, so that a value names its station
StationRows(pts) == [k \in 1..Len(pts) |-> Row(k, <<10 * k>>, "C", pts[k][1], pts[k][2])]

InitFilter ==
    /\ pc = "transformed"
    /\ table \in { [columns |-> FullColumns, rows |-> StationRows(pts)] :
                     pts \in SeqsUpTo(Sites, MaxPts) }
    /\ variable_name = Variable
    /\ args_nlags = ArgDefaultNlags
    /\ unit_den = 1
    /\ component = "CONUS"
    /\ interp_method = "ordinary"
    /\ resolution \in MinDistances
    /\ proj_box \in FilterBoxes
    /\ clip_geoms = {Rect(-1, 5, -1, 5)}
    /\ error = NoError
    /\ df = LoadAndCleanData(table, variable_name).rows
    /\ stations = [x |-> TransformCoordinates(df, proj_box).x,
                   y |-> TransformCoordinates(df, proj_box).y]
    /\ bounds = proj_box
    /\ filtered = NoPoints
    /\ grid = NoGrid
    /\ interp = NoInterp
    /\ krig_calls = <<>>
    /\ z_raw = Unset
    /\ grid_temp = Unset
    /\ transform_affine = NoTransform
    /\ grid_temp_clipped = Unset
    /\ pixel_dtype = NoDtype
    /\ output_file = NoFile
    /\ EnvInit
    /\ DriftIdle
    /\ BatchIdle
    /\ ApiIdle
    /\ AggIdle
    /\ DlIdle

SpecFilter == InitFilter /\ [][DeclusterStage]_vars

\* --- create_grid on its own -------------------------------------------------
GridMins == {-4, -2, 0, 1}
\* whole metres, and tenths of a metre
UnitDens == {1, 10}
GridBoxes ==
    { <<x0, x0 + w, y0, y0 + h>> :
        x0 \in GridMins, w \in 0..MaxExtent, y0 \in GridMins, h \in 0..MaxExtent }

InitGrid ==
    /\ pc = "declustered"
    /\ table = [columns |-> FullColumns, rows |-> <<>>]
    /\ variable_name = Variable
    /\ args_nlags = ArgDefaultNlags
    /\ unit_den \in UnitDens
    /\ component = "CONUS"
    /\ interp_method = "ordinary"
    /\ resolution \in 1..MaxRes
    /\ proj_box \in GridBoxes
    /\ clip_geoms = {Rect(-1, 5, -1, 5)}
    /\ error = NoError
    /\ df = <<>>
    /\ stations = NoStations
    /\ bounds = proj_box
    /\ filtered = FilterClosePoints(stations.x, stations.y, ColumnValues(df),
                                    bounds, resolution)
    /\ grid = NoGrid
    /\ interp = NoInterp
    /\ krig_calls = <<>>
    /\ z_raw = Unset
    /\ grid_temp = Unset
    /\ transform_affine = NoTransform
    /\ grid_temp_clipped = Unset
    /\ pixel_dtype = NoDtype
    /\ output_file = NoFile
    /\ EnvInit
    /\ DriftIdle
    /\ BatchIdle
    /\ ApiIdle
    /\ AggIdle
    /\ DlIdle

SpecGrid == InitGrid /\ [][GridStage]_vars

\* --- clip_to_component on its own -------------------------------------------
ClipBoxes == { <<0, 3, 0, 3>>, <<0, 2, 0, 1>> }
ClipRects ==
    { g \in [x0 : {0, 1, 2}, x1 : {1, 2, 4}, y0 : {-1, 1}, y1 : {1, 3}] :
          g.x0 < g.x1 /\ g.y0 < g.y1 }
ClipGeoms == { G \in SUBSET ClipRects : Cardinality(G) \in 1..MaxGeoms }

InitClip ==
    /\ pc = "interpolated"
    /\ table = [columns |-> FullColumns, rows |-> RowsOf(<< <<<<50>>, "C", 0, 0>> >>)]
    /\ variable_name = Variable
    /\ args_nlags = ArgDefaultNlags
    /\ unit_den = 1
    /\ component = "CONUS"
    /\ interp_method = "ordinary"
    /\ resolution \in 1..2
    /\ proj_box \in ClipBoxes
    /\ clip_geoms \in ClipGeoms
    /\ error = NoError
    /\ df = LoadAndCleanData(table, variable_name).rows
    /\ stations = [x |-> TransformCoordinates(df, proj_box).x,
                   y |-> TransformCoordinates(df, proj_box).y]
    /\ bounds = proj_box
    /\ filtered = FilterClosePoints(stations.x, stations.y, ColumnValues(df),
                                    bounds, resolution)
    /\ grid = CreateGrid(bounds, resolution, unit_den)
    /\ LET r == InterpolateMeasurement(filtered.x, filtered.y, filtered.values, grid,
                                       interp_method, DefaultVariogramModel, TRUE)
       IN  /\ interp = r.krig
           /\ krig_calls = r.calls
           /\ z_raw = r.z_raw
           /\ grid_temp = r.z
    /\ transform_affine = NoTransform
    /\ grid_temp_clipped = Unset
    /\ pixel_dtype = NoDtype
    /\ output_file = NoFile
    /\ EnvInit
    /\ DriftIdle
    /\ BatchIdle
    /\ ApiIdle
    /\ AggIdle
    /\ DlIdle

SpecClip == InitClip /\ [][ClipStage]_vars

\* --- _drift_latitude on its own: the estimator calls it with the y
\* coordinates of the stations or of the grid nodes
DriftYs == SeqsUpTo(0..MaxExtent, MaxDriftLen)

DriftLatitudeCall ==
    /\ drift_out = NoDrift
    /\ drift_out' = DriftLatitudeValues(drift_y)
    /\ UNCHANGED <<pc, error, inputVars, df, stations, bounds, filtered, grid,
                   interp, krig_calls, z_raw, grid_temp, transform_affine,
                   grid_temp_clipped, pixel_dtype, output_file, envVars, drift_x, drift_y,
                   batchVars, apiVars, aggVars, dlVars>>

InitDrift ==
    /\ pc = "start"
    /\ table = [columns |-> FullColumns, rows |-> <<>>]
    /\ variable_name = Variable
    /\ args_nlags = ArgDefaultNlags
    /\ unit_den = 1
    /\ component = "CONUS"
    /\ interp_method = "universal"
    /\ resolution = 1
    /\ proj_box = <<0, 2, 0, 2>>
    /\ clip_geoms = {}
    /\ Fresh
    /\ EnvInit
    /\ BatchIdle
    /\ ApiIdle
    /\ AggIdle
    /\ DlIdle
    /\ drift_y \in DriftYs
    /\ drift_x = [k \in 1..Len(drift_y) |-> 0]
    /\ drift_out = NoDrift

SpecDrift == InitDrift /\ [][DriftLatitudeCall]_vars

\* --- the pipeline run twice on the same inputs, while the wall clock advances
\* time passes
Tick ==
    /\ clock < MaxClock
    /\ clock' = clock + 1
    /\ UNCHANGED <<pc, error, inputVars, df, stations, bounds, filtered, grid,
                   interp, krig_calls, z_raw, grid_temp, transform_affine,
                   grid_temp_clipped, pixel_dtype, output_file, run, first_output,
                   sideVars>>

\* main is started again with the same arguments, after the first run wrote
\* its raster; the file of the first run is still at output_path
Rerun ==
    /\ pc = "written"
    /\ run = 1
    /\ run' = 2
    /\ first_output' = output_file
    /\ pc' = "start"
    /\ error' = NoError
    /\ df' = Unset
    /\ stations' = NoStations
    /\ bounds' = Unset
    /\ filtered' = NoPoints
    /\ grid' = NoGrid
    /\ interp' = NoInterp
    /\ krig_calls' = <<>>
    /\ z_raw' = Unset
    /\ grid_temp' = Unset
    /\ transform_affine' = NoTransform
    /\ grid_temp_clipped' = Unset
    /\ pixel_dtype' = NoDtype
    /\ UNCHANGED <<inputVars, output_file, clock, sideVars>>

InitTwice ==
    /\ pc = "start"
    /\ table \in {t \in PipeTables : t.columns = FullColumns \/ Len(t.rows) = 0}
    /\ variable_name = Variable
    /\ args_nlags = ArgDefaultNlags
    /\ unit_den = 1
    /\ component \in Components
    /\ interp_method = "ordinary"
    /\ resolution \in 1..2
    /\ proj_box \in PipeBoxes
    /\ clip_geoms = {Rect(0, 1, -1, 4)}
    /\ Fresh
    /\ EnvInit
    /\ DriftIdle
    /\ BatchIdle
    /\ ApiIdle
    /\ AggIdle
    /\ DlIdle

NextTwice == Next \/ Tick \/ Rerun

SpecTwice == InitTwice /\ [][NextTwice]_vars

\* --- the script run from the command line with a chosen --nlags
NlagsArgs == {6, 20, 40}

InitCli ==
    /\ pc = "start"
    /\ table \in {t \in PipeTables : t.columns = FullColumns /\ Len(t.rows) <= 1}
    /\ variable_name = Variable
    /\ args_nlags \in NlagsArgs
    /\ unit_den = 1
    /\ component \in Components
    /\ interp_method \in {"ordinary", "universal"}
    /\ resolution \in 1..2
    /\ proj_box = <<0, 2, 0, 2>>
    /\ clip_geoms = {Rect(0, 1, -1, 4)}
    /\ Fresh
    /\ EnvInit
    /\ DriftIdle
    /\ BatchIdle
    /\ ApiIdle
    /\ AggIdle
    /\ DlIdle

SpecCli == InitCli /\ [][Next]_vars

\* --- write_geotiff on its own: pixel arrays of every small shape, of
\* floating and of integer dtype
WriteDtypes == {"float64", "float32", "int32", "int64"}
FloatPixels == {NaN, <<0>>, <<-3>>}
IntPixels == {0, -3, 16777217}
PixelsOf(dtype) == IF IsFloating(dtype) THEN FloatPixels ELSE IntPixels
PixelArrays(dtype) ==
    UNION {[1..h -> [1..w -> PixelsOf(dtype)]] : h \in 1..MaxShape, w \in 1..MaxShape}

InitWrite ==
    /\ pc = "clipped"
    /\ table = [columns |-> FullColumns, rows |-> <<>>]
    /\ variable_name = Variable
    /\ args_nlags = ArgDefaultNlags
    /\ unit_den = 1
    /\ component \in {"CONUS", "PR"}
    /\ interp_method = "ordinary"
    /\ resolution = 1
    /\ pixel_dtype \in WriteDtypes
    /\ grid_temp_clipped \in PixelArrays(pixel_dtype)
    /\ proj_box = <<0, Width(grid_temp_clipped), 0, Len(grid_temp_clipped)>>
    /\ clip_geoms = {}
    /\ error = NoError
    /\ df = Unset
    /\ stations = NoStations
    /\ bounds = proj_box
    /\ filtered = NoPoints
    /\ grid = NoGrid
    /\ interp = NoInterp
    /\ krig_calls = <<>>
    /\ z_raw = Unset
    /\ grid_temp = Unset
    /\ transform_affine = FromOrigin(bounds[1], bounds[4], resolution, resolution)
    /\ output_file = NoFile
    /\ EnvInit
    /\ DriftIdle
    /\ BatchIdle
    /\ ApiIdle
    /\ AggIdle
    /\ DlIdle

SpecWrite == InitWrite /\ [][WriteStage]_vars

\* --- _drift_elevation on the interpolator a pipeline run constructs, at the
\* point where the estimator evaluates the drift functions
DriftXs(y) == {s \in SeqsUpTo(0..1, MaxDriftLen) : Len(s) = Len(y)}

\* the DEM files a run may find on disk
Dems == [exists : BOOLEAN, slope_x : {0, 100}, slope_y : {0, 1}]

DriftElevationCall ==
    /\ drift_out = NoDrift
    /\ \E k \in 1..Len(interp.drift_terms) : interp.drift_terms[k] = DriftElevation
    /\ \E dem \in Dems : drift_out' = DriftElevationValues(interp, drift_x, drift_y, dem)
    /\ UNCHANGED <<pc, error, inputVars, df, stations, bounds, filtered, grid,
                   interp, krig_calls, z_raw, grid_temp, transform_affine,
                   grid_temp_clipped, pixel_dtype, output_file, envVars, drift_x, drift_y,
                   batchVars, apiVars, aggVars, dlVars>>

InitElevation ==
    /\ pc = "gridded"
    /\ table = [columns |-> FullColumns, rows |-> RowsOf(<< <<<<50>>, "C", 0, 0>> >>)]
    /\ variable_name = Variable
    /\ args_nlags = ArgDefaultNlags
    /\ unit_den = 1
    /\ component \in Components
    /\ interp_method = "universal"
    /\ resolution = 1
    /\ proj_box = <<0, 2, 0, 2>>
    /\ clip_geoms = {}
    /\ error = NoError
    /\ df = LoadAndCleanData(table, variable_name).rows
    /\ stations = [x |-> TransformCoordinates(df, proj_box).x,
                   y |-> TransformCoordinates(df, proj_box).y]
    /\ bounds = proj_box
    /\ filtered = FilterClosePoints(stations.x, stations.y, ColumnValues(df),
                                    bounds, resolution)
    /\ grid = CreateGrid(bounds, resolution, unit_den)
    /\ interp = InterpolateMeasurement(filtered.x, filtered.y, filtered.values, grid,
                                       interp_method, DefaultVariogramModel, TRUE).krig
    /\ krig_calls = <<>>
    /\ z_raw = Unset
    /\ grid_temp = Unset
    /\ transform_affine = NoTransform
    /\ grid_temp_clipped = Unset
    /\ pixel_dtype = NoDtype
    /\ output_file = NoFile
    /\ EnvInit
    /\ BatchIdle
    /\ ApiIdle
    /\ AggIdle
    /\ DlIdle
    /\ drift_y \in DriftYs
    /\ drift_x \in DriftXs(drift_y)
    /\ drift_out = NoDrift

SpecElevation == InitElevation /\ [][DriftElevationCall]_vars

(***************************************************************************)
(* batch_gridded_rasters.py                                                *)
(***************************************************************************)
Entry(json_field, csv_field) == [json_field |-> json_field, csv_field |-> csv_field]

Unmapped == "--"

\* the dictionary, in insertion order
FIELD_MAP ==
    << Entry("pr_above_nonzero_99th", Unmapped),
       Entry("prmax1day", Unmapped),
       Entry("prmax5yr", Unmapped),
       Entry("tavg", "ANN-TAVG-NORMAL"),
       Entry("tmax1day", Unmapped),
       Entry("tmax_days_ge_100f", "ANN-TMAX-AVGNDS-GRTH100"),
       Entry("tmax_days_ge_105f", Unmapped),
       Entry("tmax_days_ge_95f", Unmapped),
       Entry("tmean_jja", "JJA-TAVG-NORMAL"),
       Entry("tmin_days_ge_70f", "ANN-TMIN-AVGNDS-LSTH070"),
       Entry("tmin_days_le_0f", "ANN-TMIN-AVGNDS-LSTH000"),
       Entry("tmin_days_le_32f", "ANN-TMIN-AVGNDS-LSTH032"),
       Entry("tmin_jja", "JJA-TMIN-NORMAL"),
       Entry("pr_annual", "ANN-PRCP-NORMAL"),
       Entry("pr_days_above_nonzero_99th", Unmapped) >>

BatchComponent == "conus"

\* variant: the file is named after the component alone
OutputPathOfComponent(json_field) == <<"", "_", BatchComponent, "_grid_10km.tif">>

\* f"{json_field}_{component}_grid_10km.tif"
OutputPath(json_field) == <<json_field, "_", BatchComponent, "_grid_10km.tif">>

\* how a subprocess.run(..., check=True) can end: the child exits with status
\* 0, exits with another status (CalledProcessError), or cannot be started
\* (OSError)
RunOutcomes == {"ok", "nonzero", "launch_failed"}

LogEntry(e, outcome) ==
    [json_field |-> e.json_field, csv_field |-> e.csv_field,
     output_path |-> OutputPath(e.json_field), outcome |-> outcome]

\* the loop position after the run of entry i + 1 ended in outcome
AfterRunAbortOnFailure(i, outcome) == IF outcome = "ok" THEN i + 1 ELSE Len(FIELD_MAP)
\* except Exception: print(...), and the for loop goes on
AfterRun(i, outcome) == i + 1

\* if csv_field == "--": continue
BatchSkip ==
    /\ batch_running = {}
    /\ batch_i < Len(FIELD_MAP)
    /\ FIELD_MAP[batch_i + 1].csv_field = Unmapped
    /\ batch_i' = batch_i + 1
    /\ UNCHANGED <<batch_running, batch_log>>

\* subprocess.run starts the child, or fails to start it
BatchLaunch ==
    /\ batch_running = {}
    /\ batch_i < Len(FIELD_MAP)
    /\ FIELD_MAP[batch_i + 1].csv_field # Unmapped
    /\ \E started \in BOOLEAN :
          IF started
          THEN /\ batch_running' = {FIELD_MAP[batch_i + 1].json_field}
               /\ UNCHANGED <<batch_i, batch_log>>
          ELSE /\ batch_log' = Append(batch_log,
                                      LogEntry(FIELD_MAP[batch_i + 1], "launch_failed"))
               /\ batch_i' = AfterRun(batch_i, "launch_failed")
               /\ UNCHANGED batch_running

\* subprocess.run waits for the child and returns, or raises CalledProcessError
BatchReturn ==
    /\ batch_running # {}
    /\ \E outcome \in RunOutcomes \ {"launch_failed"} :
          /\ batch_log' = Append(batch_log, LogEntry(FIELD_MAP[batch_i + 1], outcome))
          /\ batch_i' = AfterRun(batch_i, outcome)
    /\ batch_running' = {}

BatchNext ==
    /\ BatchSkip \/ BatchLaunch \/ BatchReturn
    /\ UNCHANGED <<pc, error, inputVars, df, stations, bounds, filtered, grid,
                   interp, krig_calls, z_raw, grid_temp, transform_affine,
                   grid_temp_clipped, pixel_dtype, output_file, envVars,
                   driftVars, apiVars, aggVars, dlVars>>

InitBatch ==
    /\ pc = "start"
    /\ table = [columns |-> FullColumns, rows |-> <<>>]
    /\ variable_name = Variable
    /\ args_nlags = ArgDefaultNlags
    /\ unit_den = 1
    /\ component = "CONUS"
    /\ interp_method = "universal"
    /\ resolution = 1
    /\ proj_box = <<0, 2, 0, 2>>
    /\ clip_geoms = {}
    /\ Fresh
    /\ EnvInit
    /\ DriftIdle
    /\ BatchIdle
    /\ ApiIdle
    /\ AggIdle
    /\ DlIdle

SpecBatch == InitBatch /\ [][BatchNext]_vars

(***************************************************************************)
(* process_ncei_normals.py                                                 *)
(***************************************************************************)
\* the variables list of main
AggVariables ==
    << "tavg", "tmax_days_ge_100f", "tmean_jja", "tmin_days_ge_70f",
       "tmin_days_le_0f", "tmin_days_le_32f", "tmin_jja", "pr_annual" >>

\* raster_files[var]: the four rasters the aggregator looks for, ndx 0..3
RasterFileSet(var) ==
    << <<var, "_", "conus", "_grid_10km.tif">>,
       <<var, "_", "alaska", "_grid_10km.tif">>,
       <<var, "_", "hawaii", "_grid_10km.tif">>,
       <<var, "_", "puerto_rico", "_grid_10km.tif">> >>

\* os.path.exists over the file set, in ndx order: the files not skipped
PresentFiles(var, files) ==
    SelectSeq(RasterFileSet(var), LAMBDA f : f \in files)

\* pd.concat(results): the per-county frame of one variable, the zonal means
\* of the rasters in sources under the column var
MergedFrame(var, sources) == [bound |-> TRUE, var |-> var, sources |-> sources]

\* the local merged_results after the inner loop: assigned on the iterations
\* that were not skipped, otherwise whatever it held before
MergedAfterLoop(prev, var, files) ==
    IF Len(PresentFiles(var, files)) > 0
    THEN MergedFrame(var, PresentFiles(var, files))
    ELSE prev

UnboundMergedError == [type |-> "UnboundLocalError", names |-> "merged_results"]
CountiesError == [type |-> "Exception", names |-> "get_county_geometries"]
RasterError == [type |-> "Exception", names |-> "process_raster"]
MergeError == [type |-> "MergeError", names |-> "suffixes"]

\* column labels of a frame: a label is the column name, followed by the
\* suffix pandas appended to it
FrameColumns(frame) == << <<"county_id">>, <<frame.var>> >>

\* DataFrame.merge(right, on="county_id"): the key, the other left columns,
\* then the other right columns; a label on both sides gets _x and _y
MergeColumns(left, right) ==
    LET key     == <<"county_id">>
        overlap == (Range(left) \cap Range(right)) \ {key}
        lcols   == [k \in 1..Len(left) |->
                      IF left[k] \in overlap THEN left[k] \o <<"_x">> ELSE left[k]]
        rest    == SelectSeq(right, LAMBDA c : c # key)
        rcols   == [k \in 1..Len(rest) |->
                      IF rest[k] \in overlap THEN rest[k] \o <<"_y">> ELSE rest[k]]
    IN lcols \o rcols

RECURSIVE MergeAll(_, _, _)
\* raw_results after merging all_results[k..] into it
MergeAll(raw, all, k) ==
    IF k > Len(all) THEN raw
    ELSE MergeAll(MergeColumns(raw, FrameColumns(all[k])), all, k + 1)

HasDuplicates(s) == \E a, b \in 1..Len(s) : a # b /\ s[a] = s[b]

RECURSIVE MergeCollides(_, _, _)
\* some merge of the chain produces a duplicate label, which pandas rejects
\* or only warns about, depending on its version
MergeCollides(raw, all, k) ==
    /\ k <= Len(all)
    /\ \/ HasDuplicates(MergeColumns(raw, FrameColumns(all[k])))
       \/ MergeCollides(MergeColumns(raw, FrameColumns(all[k])), all, k + 1)

\* get_county_geometries: the county layer is read, or the run fails
LoadCounties ==
    /\ agg_out.status = "idle"
    /\ \E ok \in BOOLEAN :
          agg_out' = IF ok THEN [agg_out EXCEPT !.status = "running"]
                     ELSE [status |-> "failed", columns |-> <<>>,
                           error |-> CountiesError]
    /\ UNCHANGED <<agg_files, agg_i, agg_merged, agg_all>>

\* one pass of the outer loop: the inner loop over the file set, then
\* all_results.append(merged_results)
ProcessVariable ==
    /\ agg_out.status = "running"
    /\ agg_i < Len(AggVariables)
    /\ LET var    == AggVariables[agg_i + 1]
           merged == MergedAfterLoop(agg_merged, var, agg_files)
       IN \E ok \in BOOLEAN :
             IF ~ok /\ Len(PresentFiles(var, agg_files)) > 0
             THEN /\ agg_out' = [status |-> "failed", columns |-> <<>>,
                                 error |-> RasterError]
                  /\ UNCHANGED <<agg_i, agg_merged, agg_all>>
             ELSE IF ~merged.bound
             THEN /\ agg_out' = [status |-> "failed", columns |-> <<>>,
                                 error |-> UnboundMergedError]
                  /\ UNCHANGED <<agg_i, agg_merged, agg_all>>
             ELSE /\ agg_merged' = merged
                  /\ agg_all' = Append(agg_all, merged)
                  /\ agg_i' = agg_i + 1
                  /\ UNCHANGED agg_out
    /\ UNCHANGED agg_files

\* the merge of all_results on county_id and the export
FinalMerge ==
    /\ agg_out.status = "running"
    /\ agg_i = Len(AggVariables)
    /\ LET first == FrameColumns(agg_all[1])
       IN \/ agg_out' = [status |-> "done",
                         columns |-> MergeAll(first, agg_all, 2),
                         error |-> NoError]
          \/ /\ MergeCollides(first, agg_all, 2)
             /\ agg_out' = [status |-> "failed", columns |-> <<>>,
                            error |-> MergeError]
    /\ UNCHANGED <<agg_files, agg_i, agg_merged, agg_all>>

AggNext ==
    /\ LoadCounties \/ ProcessVariable \/ FinalMerge
    /\ UNCHANGED <<pc, error, inputVars, df, stations, bounds, filtered, grid,
                   interp, krig_calls, z_raw, grid_temp, transform_affine,
                   grid_temp_clipped, pixel_dtype, output_file, envVars,
                   driftVars, batchVars, apiVars, dlVars>>

\* the rasters found in raster_dir: for every variable none of its files,
\* its CONUS file alone, or all four
RasterDirs ==
    LET choices == [1..Len(AggVariables) -> 0..2]
        some(c, k) == IF c[k] = 0 THEN {}
                      ELSE IF c[k] = 1 THEN {RasterFileSet(AggVariables[k])[1]}
                      ELSE Range(RasterFileSet(AggVariables[k]))
    IN { UNION {some(c, k) : k \in 1..Len(AggVariables)} : c \in choices }

InitAgg ==
    /\ pc = "start"
    /\ table = [columns |-> FullColumns, rows |-> <<>>]
    /\ variable_name = Variable
    /\ args_nlags = ArgDefaultNlags
    /\ unit_den = 1
    /\ component = "CONUS"
    /\ interp_method = "universal"
    /\ resolution = 1
    /\ proj_box = <<0, 2, 0, 2>>
    /\ clip_geoms = {}
    /\ Fresh
    /\ EnvInit
    /\ DriftIdle
    /\ BatchIdle
    /\ ApiIdle
    /\ agg_files \in RasterDirs
    /\ agg_i = 0
    /\ agg_merged = Unbound
    /\ agg_all = <<>>
    /\ agg_out = NoOutcome
    /\ DlIdle

SpecAgg == InitAgg /\ [][AggNext]_vars

(***************************************************************************)
(* download_sources.py: download_noaa_normals, one step per chunk written  *)
(* and per archive member extracted                                        *)
(***************************************************************************)
\* chunks response.iter_content yields for the whole archive
ArchiveChunks == 4
\* members of the archive
ArchiveMembers == 4
\* invocations of download_noaa_normals in one behaviour
MaxCalls == 5

\* the archive at filepath holds every chunk
Downloaded == dl_file = <<ArchiveChunks>>

\* a call: mkdir, the filepath.exists() early return, else requests.get,
\* raise_for_status and open(filepath, "wb")
DlInvoke ==
    /\ dl_pc = "idle"
    /\ dl_calls < MaxCalls
    /\ dl_calls' = dl_calls + 1
    /\ IF dl_file # Absent
       THEN /\ dl_result' = "returned"
            /\ UNCHANGED <<dl_pc, dl_file, dl_extracted>>
       ELSE \E got \in BOOLEAN :
               IF got
               THEN /\ dl_file' = <<0>>
                    /\ dl_pc' = "downloading"
                    /\ dl_result' = "running"
                    /\ UNCHANGED dl_extracted
               ELSE /\ dl_result' = "raised"
                    /\ UNCHANGED <<dl_pc, dl_file, dl_extracted>>

\* one pass of the iter_content loop: f.write(chunk), or the stream breaks
\* and the exception leaves the function with the file as written so far
DlChunk ==
    /\ dl_pc = "downloading"
    /\ \E ok \in BOOLEAN :
          IF ok
          THEN /\ dl_file' = <<dl_file[1] + 1>>
               /\ dl_pc' = IF dl_file[1] + 1 = ArchiveChunks
                           THEN "extracting" ELSE "downloading"
               /\ UNCHANGED dl_result
          ELSE /\ dl_pc' = "idle"
               /\ dl_result' = "raised"
               /\ UNCHANGED dl_file
    /\ UNCHANGED <<dl_extracted, dl_calls>>

\* tar.extractall, member by member: the last member ends the call with a
\* normal return; a failure leaves the members extracted so far
DlExtract ==
    /\ dl_pc = "extracting"
    /\ \E ok \in BOOLEAN :
          IF ok
          THEN /\ dl_extracted' = dl_extracted + 1
               /\ IF dl_extracted + 1 = ArchiveMembers
                  THEN dl_pc' = "idle" /\ dl_result' = "returned"
                  ELSE UNCHANGED <<dl_pc, dl_result>>
          ELSE /\ dl_pc' = "idle"
               /\ dl_result' = "raised"
               /\ UNCHANGED dl_extracted
    /\ UNCHANGED <<dl_file, dl_calls>>

DlNext ==
    /\ DlInvoke \/ DlChunk \/ DlExtract
    /\ UNCHANGED <<pc, error, inputVars, df, stations, bounds, filtered, grid,
                   interp, krig_calls, z_raw, grid_temp, transform_affine,
                   grid_temp_clipped, pixel_dtype, output_file, envVars,
                   driftVars, batchVars, apiVars, aggVars>>

InitDownload ==
    /\ pc = "start"
    /\ table = [columns |-> FullColumns, rows |-> <<>>]
    /\ variable_name = Variable
    /\ args_nlags = ArgDefaultNlags
    /\ unit_den = 1
    /\ component = "CONUS"
    /\ interp_method = "universal"
    /\ resolution = 1
    /\ proj_box = <<0, 2, 0, 2>>
    /\ clip_geoms = {}
    /\ Fresh
    /\ EnvInit
    /\ DriftIdle
    /\ BatchIdle
    /\ ApiIdle
    /\ AggIdle
    /\ DlIdle

SpecDownload == InitDownload /\ [][DlNext]_vars

(***************************************************************************)
(* api/climate_vars.py: a table is a sequence of rows, a row a function    *)
(* from column names to cells, a cell <<v>> or None (SQL NULL)             *)
(***************************************************************************)
None == <<>>

CountyColumnNames == <<"id", "name", "fips", "state_abbr">>

VariableColumnNames ==
    << "id", "county_id", "gwl", "pr_above_nonzero_99th", "prmax1day", "prmax5yr",
       "tavg", "tmax1day", "tmax_days_ge_100f", "tmax_days_ge_105f",
       "tmax_days_ge_95f", "tmean_jja", "tmin_days_ge_70f", "tmin_days_le_0f",
       "tmin_days_le_32f", "tmin_jja", "pr_annual", "pr_days_above_nonzero_99th" >>

NormalColumnNames ==
    << "county_fips", "tavg", "tmax_days_ge_100f", "tmean_jja", "tmin_days_ge_70f",
       "tmin_days_le_0f", "tmin_days_le_32f", "tmin_jja", "pr_annual" >>

VALID_COLUMNS == Range(VariableColumnNames)
VALID_NORMALS == Range(NormalColumnNames) \ {"county_fips"}

CountyFields == {"name", "fips", "state_abbr"}
\* class ClimateData: the fields declared with no default, and all fields
ClimateDataRequired == {"id", "county_id", "gwl"}
ClimateDataFields == VALID_COLUMNS \cup CountyFields

\* Model(**dict(row._mapping)) of a pydantic model: keys that are no field are
\* ignored, an optional field without a key is None, and a required field
\* without a key (or holding None) is a ValidationError
Validate(fields, required, row) ==
    IF \A f \in required : f \in DOMAIN row /\ row[f] # None
    THEN [ok |-> TRUE, rec |-> [f \in fields |-> IF f \in DOMAIN row THEN row[f] ELSE None]]
    ELSE [ok |-> FALSE, rec |-> <<>>]

\* the handler's return value, or what the framework makes of an exception
Ok(records) == [status |-> 200, body |-> records]
NotFound == [status |-> 404, body |-> <<>>]
ServerError == [status |-> 500, body |-> <<>>]

\* response = [Model(**dict(row._mapping)) for row in results]; return response
Respond(fields, required, results) ==
    IF \A k \in 1..Len(results) : Validate(fields, required, results[k]).ok
    THEN Ok([k \in 1..Len(results) |-> Validate(fields, required, results[k]).rec])
    ELSE ServerError

\* var and var in columns
VarIn(var, columns) == var # None /\ var[1] # "" /\ var[1] \in columns

\* SQL a + b
SqlAdd(a, b) == IF a = None \/ b = None THEN None ELSE <<a[1] + b[1]>>

\* SQL normal * (1 + (change / 100.0)), as the quotient <<numerator, 100>>
PrAnnualAbsolute(normal, change) ==
    IF normal = None \/ change = None THEN None
    ELSE <<normal[1] * (100 + change[1]), 100>>

\* --- the contents of the database and the query parameters
IndexOf(names, c) == CHOOSE k \in 1..Len(names) : names[k] = c

CountyRow(id, name, fips, state_abbr) ==
    [c \in Range(CountyColumnNames) |->
        IF c = "id" THEN <<id>> ELSE IF c = "name" THEN <<name>>
        ELSE IF c = "fips" THEN <<fips>> ELSE <<state_abbr>>]

\* a climate_variables row whose float cells are base + the column's position,
\* with a NULL prmax5yr when base = 20
VariablesRowOf(id, county_id, gwl, base) ==
    [c \in VALID_COLUMNS |->
        IF c = "id" THEN <<id>> ELSE IF c = "county_id" THEN <<county_id>>
        ELSE IF c = "gwl" THEN <<gwl>>
        ELSE IF c = "prmax5yr" /\ base = 20 THEN None
        ELSE <<base + IndexOf(VariableColumnNames, c)>>]

NormalsRowOf(county_fips, base) ==
    [c \in Range(NormalColumnNames) |->
        IF c = "county_fips" THEN <<county_fips>>
        ELSE <<base + IndexOf(NormalColumnNames, c)>>]

ApiCounties ==
    { << CountyRow(1, "Ada", "16001", "ID") >>,
      << CountyRow(1, "Ada", "16001", "ID"), CountyRow(2, "Bay", "12005", "FL") >> }

\* county_id, gwl in tenths of a degree, base
VariablesCells == { <<1, 15, 10>>, <<2, 15, 20>>, <<3, 20, 30>> }

ApiVariables ==
    { [k \in 1..Len(s) |-> VariablesRowOf(k, s[k][1], s[k][2], s[k][3])] :
        s \in SeqsUpTo(VariablesCells, MaxApiRows) }

NormalsCells == { <<"16001", 100>>, <<"12005", 200>> }

\* county_fips is the primary key: no two rows share it
ApiNormals ==
    { [k \in 1..Len(s) |-> NormalsRowOf(s[k][1], s[k][2])] :
        s \in { q \in SeqsUpTo(NormalsCells, MaxApiRows) :
                  \A i, j \in 1..Len(q) : i # j => q[i] # q[j] } }

ApiDbs ==
    { [counties |-> c, climate_variables |-> v, climate_normals |-> n] :
        c \in ApiCounties, v \in ApiVariables, n \in ApiNormals }

ApiFips == { None, <<"16001">>, <<"99999">> }
ApiCountyIds == { None, <<1>>, <<3>> }
ApiGwls == { None, <<15>> }
ApiVars == { None, <<"">>, <<"tavg">>, <<"prmax1day">>, <<"pr_annual">>, <<"id">>,
             <<"bogus">> }

\* GET /climate-normals: the rows that match the filter, with the selected
\* columns
NormalsResults(db, county_fips, var) ==
    LET hits == SelectSeq(db.climate_normals,
                          LAMBDA r : county_fips = None \/ r["county_fips"] = county_fips)
        keys == IF VarIn(var, VALID_NORMALS)
                THEN {"county_fips", var[1]}
                ELSE Range(NormalColumnNames)
    IN  [k \in 1..Len(hits) |-> [c \in keys |-> hits[k][c]]]

\* get_climate_normals
GetClimateNormals(db, county_fips, var) ==
    LET results == NormalsResults(db, county_fips, var)
    IN  IF Len(results) = 0 THEN NotFound
        ELSE IF VarIn(var, VALID_COLUMNS)
             THEN Respond({"county_fips", var[1]}, {"county_fips"}, results)
             ELSE Respond(ClimateDataFields, ClimateDataRequired, results)

\* climate_variables JOIN counties ON county_id = counties.id, and for
\* absolute values JOIN climate_normals ON counties.fips = county_fips; both
\* join keys are primary keys, so a row joins at most once
JoinedRows(db, cv, relative) ==
    LET cs == SelectSeq(db.counties, LAMBDA c : cv["county_id"] = c["id"])
        ns == SelectSeq(db.climate_normals, LAMBDA n : cs[1]["fips"] = n["county_fips"])
    IN  IF Len(cs) = 0 THEN <<>>
        ELSE IF relative THEN << [cv |-> cv, county |-> cs[1], normal |-> <<>>] >>
        ELSE IF Len(ns) = 0 THEN <<>>
        ELSE << [cv |-> cv, county |-> cs[1], normal |-> ns[1]] >>

\* the column expression selected for a climate_variables column
SelectedValue(col, j, relative) ==
    IF ~relative /\ col \in VALID_NORMALS
    THEN IF col = "pr_annual"
         THEN PrAnnualAbsolute(j.normal["pr_annual"], j.cv["pr_annual"])
         ELSE SqlAdd(j.cv[col], j.normal[col])
    ELSE j.cv[col]

\* the model fields of get_climate_variables for a valid var
SubsetFields(var) == ClimateDataRequired \cup {var[1]} \cup CountyFields

\* dict(row._mapping) of one result row of get_climate_variables
VariablesRow(j, var, relative) ==
    LET subset == VarIn(var, VALID_COLUMNS)
        keys == IF subset THEN SubsetFields(var) ELSE ClimateDataFields
    IN  [c \in keys |->
            IF c \in CountyFields THEN j.county[c]
            ELSE IF subset /\ c # var[1] THEN j.cv[c]
            ELSE SelectedValue(c, j, relative)]

VariablesResults(db, county_id, gwl, var, relative) ==
    LET hits == SelectSeq(db.climate_variables,
                    LAMBDA r : /\ county_id = None \/ r["county_id"] = county_id
                               /\ gwl = None \/ r["gwl"] = gwl
                               /\ Len(JoinedRows(db, r, relative)) > 0)
    IN  [k \in 1..Len(hits) |->
            VariablesRow(JoinedRows(db, hits[k], relative)[1], var, relative)]

\* get_climate_variables; in the subset model the entry for var replaces a
\* required field of the same name
GetClimateVariables(db, county_id, gwl, var, relative) ==
    LET results == VariablesResults(db, county_id, gwl, var, relative)
    IN  IF Len(results) = 0 THEN NotFound
        ELSE IF VarIn(var, VALID_COLUMNS)
             THEN Respond(SubsetFields(var), ClimateDataRequired \ {var[1]}, results)
             ELSE Respond(ClimateDataFields, ClimateDataRequired, results)

(***************************************************************************)
(* seed_normals.py: the loader of climate_normals                          *)
(***************************************************************************)
NormalsRecordKeys == {"county_id"} \cup VALID_NORMALS

\* a record of the normals JSON file with every key; its county_id is stored
\* as county_fips
NormalsRecordOf(county_id, base) ==
    [c \in NormalsRecordKeys |->
        IF c = "county_id" THEN <<county_id>>
        ELSE <<base + IndexOf(NormalColumnNames, c)>>]

\* insert_data(cur, record) on the rows of climate_normals: [ok, rows]. A
\* record without one of the keys is a KeyError, a null county_id violates
\* the primary key; ON CONFLICT (county_fips) replaces the values of the row
\* that holds the key, otherwise the row is added
InsertData(normals, record) ==
    IF ~(NormalsRecordKeys \subseteq DOMAIN record) \/ record["county_id"] = None
    THEN [ok |-> FALSE, rows |-> normals]
    ELSE LET row == [c \in Range(NormalColumnNames) |->
                        IF c = "county_fips" THEN record["county_id"] ELSE record[c]]
         IN  IF \E k \in 1..Len(normals) : normals[k]["county_fips"] = row["county_fips"]
             THEN [ok |-> TRUE,
                   rows |-> [k \in 1..Len(normals) |->
                               IF normals[k]["county_fips"] = row["county_fips"]
                               THEN row ELSE normals[k]]]
             ELSE [ok |-> TRUE, rows |-> Append(normals, row)]

RECURSIVE InsertAll(_, _, _)
\* for record in data: insert_data(cur, record), from record k on
InsertAll(normals, data, k) ==
    IF k > Len(data) THEN [ok |-> TRUE, rows |-> normals]
    ELSE LET one == InsertData(normals, data[k])
         IN  IF one.ok THEN InsertAll(one.rows, data, k + 1)
             ELSE [ok |-> FALSE, rows |-> normals]

(***************************************************************************)
(* seed_nca_atlas.py: the loader of counties and climate_variables. A      *)
(* feature is its properties: NAME, STATE_ABBR, FIPS, and the values       *)
(* <column>_GWL<n> for the n in gwls; state_name and the geometry are      *)
(* stored too and read by no handler                                       *)
(***************************************************************************)
Feature(name, state_abbr, fips, gwls, base) ==
    [empty |-> FALSE, NAME |-> name, STATE_ABBR |-> state_abbr, FIPS |-> fips,
     gwls |-> gwls, base |-> base]

\* a feature whose properties are {}
BareFeature == [empty |-> TRUE, NAME |-> "", STATE_ABBR |-> "", FIPS |-> "",
                gwls |-> {}, base |-> 0]

\* int(gwl_value), gwl_value in tenths of a degree: int() drops the fraction,
\* towards zero
IntGwl(gwl) == IF gwl >= 0 THEN gwl \div 10 ELSE -((-gwl) \div 10)

\* props.get(f"{col}_GWL{int(gwl_value)}")
PropsGet(props, col, gwl) ==
    IF IntGwl(gwl) \notin props.gwls THEN None
    ELSE IF col = "prmax5yr" /\ props.base = 20 THEN None
    ELSE <<props.base + IndexOf(VariableColumnNames, col)>>

\* the largest id of a table, 0 when it is empty: the next serial id follows
LastId(rows) == IF Len(rows) = 0 THEN 0 ELSE Max({rows[k]["id"][1] : k \in 1..Len(rows)})

\* fips_to_id[fips]: the id returned for the last inserted county of that fips
FipsToId(inserted, fips) ==
    LET ks == {k \in 1..Len(inserted) : inserted[k]["fips"] = <<fips>>}
    IN  IF ks = {} THEN None ELSE inserted[Max(ks)]["id"]

\* the climate_data of one file: a tuple per feature with properties
ClimateData(file, gwl, inserted) ==
    LET feats == SelectSeq(file, LAMBDA f : ~f.empty)
    IN  [k \in 1..Len(feats) |->
            [county_id |-> FipsToId(inserted, feats[k].FIPS), gwl |-> gwl,
             props |-> feats[k]]]

RECURSIVE AllClimateData(_, _, _)
\* the tuples of the files k.. of gwl_files, in the order they are inserted
AllClimateData(gwl_files, inserted, k) ==
    IF k > Len(gwl_files) THEN <<>>
    ELSE ClimateData(gwl_files[k][1], gwl_files[k][2], inserted)
            \o AllClimateData(gwl_files, inserted, k + 1)

\* load_geojson_data(connection, gwl_files) on the database: [ok, db]. The
\* counties of the first file are inserted, then a climate_variables row per
\* feature and file; an exception leaves before connection.commit()
LoadGeojsonData(db, gwl_files) ==
    IF Len(gwl_files) = 0 THEN [ok |-> FALSE, db |-> db]
    ELSE LET first    == gwl_files[1][1]
             inserted == [k \in 1..Len(first) |->
                            CountyRow(LastId(db.counties) + k, first[k].NAME,
                                      first[k].FIPS, first[k].STATE_ABBR)]
             data     == AllClimateData(gwl_files, inserted, 1)
             rows     == [k \in 1..Len(data) |->
                            [c \in VALID_COLUMNS |->
                               IF c = "id" THEN <<LastId(db.climate_variables) + k>>
                               ELSE IF c = "county_id" THEN data[k].county_id
                               ELSE IF c = "gwl" THEN <<data[k].gwl>>
                               ELSE PropsGet(data[k].props, c, data[k].gwl)]]
         IN  IF \/ \E k \in 1..Len(first) : first[k].empty
                \/ \E k \in 1..Len(data) : data[k].county_id = None
             THEN [ok |-> FALSE, db |-> db]
             ELSE [ok |-> TRUE,
                   db |-> [counties |-> db.counties \o inserted,
                           climate_variables |-> db.climate_variables \o rows,
                           climate_normals |-> db.climate_normals]]

\* --- what the loaders are run on
AdaRecord == NormalsRecordOf("16001", 100)
AdaRevised == NormalsRecordOf("16001", 200)
BayRecord == NormalsRecordOf("12005", 200)
\* a record without most of its keys
ShortRecord == [c \in {"county_id", "tavg"} |-> IF c = "county_id" THEN <<"12005">> ELSE <<7>>]

SeedRecords == { AdaRecord, AdaRevised, BayRecord, ShortRecord }

NormalsFiles ==
    { <<>>, <<AdaRecord>>, <<AdaRevised, BayRecord>>, <<AdaRecord, AdaRevised>>,
      <<BayRecord, ShortRecord>> }

AdaFile == << Feature("Ada", "ID", "16001", {1}, 10) >>
CookFile == << Feature("Cook", "IL", "17031", {1, 2}, 20), BareFeature >>

\* gwl_files: none, one file, two files, a second file with a county the
\* first has not, a first file with a feature without properties, and a
\* negative warming level
GwlFiles ==
    { <<>>,
      << <<AdaFile, 15>> >>,
      << <<AdaFile, 15>>, <<AdaFile, 20>> >>,
      << <<AdaFile, 15>>, <<CookFile, 20>> >>,
      << <<CookFile, 15>> >>,
      << <<AdaFile, -15>> >> }

ServeClimateNormals ==
    \E county_fips \in ApiFips, var \in ApiVars :
        /\ api_request' = [path |-> "/climate-normals", county_fips |-> county_fips,
                           county_id |-> None, gwl |-> None, var |-> var,
                           relative |-> TRUE]
        /\ api_response' = GetClimateNormals(api_db, county_fips, var)
        /\ UNCHANGED api_db

ServeClimateVariables ==
    \E county_id \in ApiCountyIds, gwl \in ApiGwls, var \in ApiVars, relative \in BOOLEAN :
        /\ api_request' = [path |-> "/climate-variables", county_fips |-> None,
                           county_id |-> county_id, gwl |-> gwl, var |-> var,
                           relative |-> relative]
        /\ api_response' = GetClimateVariables(api_db, county_id, gwl, var, relative)
        /\ UNCHANGED api_db

\* the response is sent, the server waits for the next request
ApiReturn ==
    /\ api_request' = NoRequest
    /\ api_response' = NoResponse
    /\ UNCHANGED api_db

\* a call of insert_data whose transaction the caller commits
InsertDataCall ==
    \E record \in SeedRecords :
        /\ InsertData(api_db.climate_normals, record).ok
        /\ api_db' = [api_db EXCEPT !.climate_normals =
                                      InsertData(api_db.climate_normals, record).rows]
        /\ UNCHANGED <<api_request, api_response>>

\* main of seed_normals.py: connect, create_table (the table exists from then
\* on), every record of the file, commit; an exception is printed and nothing
\* is committed
SeedNormalsMain ==
    \E data \in NormalsFiles, connected \in BOOLEAN :
        /\ api_db' = IF connected /\ InsertAll(api_db.climate_normals, data, 1).ok
                     THEN [api_db EXCEPT !.climate_normals =
                                InsertAll(api_db.climate_normals, data, 1).rows]
                     ELSE api_db
        /\ UNCHANGED <<api_request, api_response>>

\* main of seed_nca_atlas.py, and load_geojson_data inside it
SeedAtlasMain ==
    \E gwl_files \in GwlFiles :
        LET loaded == LoadGeojsonData(api_db, gwl_files)
        IN  /\ Len(loaded.db.counties) <= MaxSeedCounties
            /\ Len(loaded.db.climate_variables) <= MaxSeedVariables
            /\ api_db' = IF loaded.ok THEN loaded.db ELSE api_db
            /\ UNCHANGED <<api_request, api_response>>

\* the server reads the database in one query per request; the loaders are
\* processes of their own and commit at any time, also between the query of
\* a request and its response
ApiNext ==
    /\ \/ api_request = NoRequest /\ (ServeClimateNormals \/ ServeClimateVariables)
       \/ api_request # NoRequest /\ ApiReturn
       \/ InsertDataCall \/ SeedNormalsMain \/ SeedAtlasMain
    /\ UNCHANGED <<pc, error, inputVars, df, stations, bounds, filtered, grid,
                   interp, krig_calls, z_raw, grid_temp, transform_affine,
                   grid_temp_clipped, pixel_dtype, output_file, envVars,
                   driftVars, batchVars, aggVars, dlVars>>

InitApi ==
    /\ pc = "start"
    /\ table = [columns |-> FullColumns, rows |-> <<>>]
    /\ variable_name = Variable
    /\ args_nlags = ArgDefaultNlags
    /\ unit_den = 1
    /\ component = "CONUS"
    /\ interp_method = "universal"
    /\ resolution = 1
    /\ proj_box = <<0, 2, 0, 2>>
    /\ clip_geoms = {}
    /\ Fresh
    /\ EnvInit
    /\ DriftIdle
    /\ BatchIdle
    /\ api_db \in ApiDbs
    /\ api_request = NoRequest
    /\ api_response = NoResponse
    /\ AggIdle
    /\ DlIdle

SpecApi == InitApi /\ [][ApiNext]_vars

(***************************************************************************)
(* Properties                                                              *)
(***************************************************************************)
SquaredDistance(x1, y1, x2, y2) == (x1 - x2) * (x1 - x2) + (y1 - y2) * (y1 - y2)

\* the input stations of filter_close_points that lie inside the bounding box
InBox == InBounds(stations.x, stations.y, bounds)

\* C1: every two distinct points returned by filter_close_points are at
\* Euclidean distance >= the minimum separation from each other.
C1_PairwiseSeparation ==
    pc = "declustered" =>
        \A i, j \in 1..Len(filtered.x) :
            i # j => SquaredDistance(filtered.x[i], filtered.y[i],
                                     filtered.x[j], filtered.y[j])
                       >= resolution * resolution

\* filter_close_points returned at least two points and dropped an in-bounds one
C1_Witness ==
    /\ pc = "declustered"
    /\ resolution >= 2
    /\ Len(filtered.x) >= 2
    /\ Len(filtered.x) < Cardinality(InBox)

\* every in-bounds point lies within the minimum separation of the first one
AllNearFirstInBox ==
    /\ InBox # {}
    /\ \A k \in InBox :
           SquaredDistance(stations.x[k], stations.y[k],
                           stations.x[Min(InBox)], stations.y[Min(InBox)])
             < resolution * resolution

\* C2: when every in-bounds point lies within distance < d of the first
\* in-bounds point, filter_close_points returns exactly that first point, with
\* its own value.
C2_SingleCluster ==
    (pc = "declustered" /\ AllNearFirstInBox) =>
        /\ filtered.x = <<stations.x[Min(InBox)]>>
        /\ filtered.y = <<stations.y[Min(InBox)]>>
        /\ filtered.values = <<df[Min(InBox)].val[1]>>

\* three distinct in-bounds stations in one cluster, after an out-of-bounds one
C2_Witness ==
    /\ pc = "declustered"
    /\ AllNearFirstInBox
    /\ Cardinality(InBox) >= 3
    /\ Min(InBox) > 1
    /\ \A i, j \in InBox :
           i # j => <<stations.x[i], stations.y[i]>> # <<stations.x[j], stations.y[j]>>
    /\ Len(filtered.x) = 1

\* the 1-D coordinate sequences behind the meshes of create_grid
GridX == IF Len(grid.xx) = 0 THEN <<>> ELSE grid.xx[1]
GridY == [j \in 1..Len(grid.yy) |-> grid.yy[j][1]]

\* the same sequences as the floats create_grid returns
GridXF64 == IF Len(grid.xx_f64) = 0 THEN <<>> ELSE grid.xx_f64[1]
GridYF64 == [j \in 1..Len(grid.yy_f64) |-> grid.yy_f64[j][1]]

\* the floats the bounds and the resolution are
BoundF64(i) == FlOf(bounds[i], unit_den)
ResolutionF64 == FlOf(resolution, unit_den)

\* an axis of floats starts at lo, ascends in steps whose computed difference
\* is step, and ends at or above hi
AxisCovers(axis, lo, hi, step) ==
    /\ Len(axis) >= 1
    /\ axis[1] = lo
    /\ \A k \in 1..(Len(axis) - 1) :
           FlLess(axis[k], axis[k + 1]) /\ FlSub(axis[k + 1], axis[k]) = step
    /\ ~FlLess(axis[Len(axis)], hi)

\* one unit in the last place of the larger of two floats, in units of
\* 2^-UnitBits
UlpUnits(x, y) ==
    LET big == IF MagLess(x.mag, y.mag) THEN y.mag ELSE x.mag
    IN  IF MagBitLen(big) > MantissaBits THEN 2^(MagBitLen(big) - MantissaBits) ELSE 1

Abs(n) == IF n < 0 THEN -n ELSE n

\* x - y as a whole number of units, for floats that lie close together
FlUnitsApart(x, y) ==
    LET d == ExactSum(x, FlNeg(y)) IN d.sgn * (d.mag[2] * LimbBase + d.mag[3])

\* n / den is a binary fraction, which binary64 holds exactly
RECURSIVE OddPart(_)
OddPart(d) == IF d % 2 = 0 THEN OddPart(d \div 2) ELSE d
ExactFloat(n, den) == n % OddPart(den) = 0

\* an axis starts at lo / den, ascends, has its node k (counted from 0) within
\* k units in the last place of the float nearest (lo + k * step) / den, and
\* has a last node standing for a decimal at or above hi / den; on binary
\* fractions it covers [lo, hi] in steps of exactly step
AxisCoversUpToRounding(axis, lo, hi, step, den) ==
    LET ulp == UlpUnits(FlOf(lo, den), FlAdd(FlOf(hi, den), FlOf(step, den)))
    IN  /\ Len(axis) >= 1
        /\ axis[1] = FlOf(lo, den)
        /\ \A k \in 1..(Len(axis) - 1) : FlLess(axis[k], axis[k + 1])
        /\ \A k \in 1..Len(axis) :
               Abs(FlUnitsApart(axis[k], FlOf(lo + (k - 1) * step, den))) <= (k - 1) * ulp
        /\ lo + (Len(axis) - 1) * step >= hi
        /\ (ExactFloat(lo, den) /\ ExactFloat(hi, den) /\ ExactFloat(step, den)) =>
               AxisCovers(axis, FlOf(lo, den), FlOf(hi, den), FlOf(step, den))

NodeOfPixel(r, c) ==
    LET gx == Unique(grid.xx)
        gy == Unique(grid.yy)
    IN  <<gx[c], gy[Len(gy) + 1 - r]>>

\* C4: in the raster returned by interpolate_measurement and written by
\* create_measurement_grid, row r holds the estimates of ascending grid_y index
\* ny-1-r (row 0 the maximum y, the last row the minimum y), column c those of
\* ascending grid_x index c, and the kriging output is flipped exactly once.
C4_NorthUp ==
    /\ pc \in {"interpolated", "clipped", "written"} =>
          /\ Len(grid_temp) = Len(GridY)
          /\ \A r \in 1..Len(grid_temp) :
                /\ Len(grid_temp[r]) = Len(GridX)
                /\ grid_temp[r] = z_raw[Len(z_raw) + 1 - r]
                /\ \A c \in 1..Len(grid_temp[r]) :
                      /\ grid_temp[r][c] = NodeOfPixel(r, c)
                      /\ r = 1 => \A j \in 1..Len(GridY) : grid_temp[r][c][2] >= GridY[j]
                      /\ r = Len(grid_temp) =>
                            \A j \in 1..Len(GridY) : grid_temp[r][c][2] <= GridY[j]
                      /\ c = 1 => \A i \in 1..Len(GridX) : grid_temp[r][c][1] <= GridX[i]
    /\ pc = "written" =>
          /\ output_file.height = Len(GridY)
          /\ output_file.width = Len(GridX)
          /\ \A r \in 1..output_file.height : \A c \in 1..output_file.width :
                output_file.band1[r][c] \in {NaN, NodeOfPixel(r, c)}

\* a written raster of several rows with estimates in its first and last row
C4_Witness ==
    /\ pc = "written"
    /\ output_file.height >= 2
    /\ output_file.width >= 2
    /\ output_file.band1[1][1] # NaN
    /\ output_file.band1[output_file.height][1] # NaN

\* the left half of the 4 x 4 raster over the box <<0, 3, 0, 3>> at resolution 1
LeftHalf == Rect(0, 2, -1, 3)
LeftHalfCase ==
    clip_geoms = {LeftHalf} /\ bounds = <<0, 3, 0, 3>> /\ resolution = 1

\* C5: clip_to_component returns a new array of the input's shape in which a
\* pixel is NaN when its cell intersects no boundary polygon and keeps its
\* input value when it does; the input array is left as it was; a polygon
\* over the left half of a 4 x 4 grid keeps the left two columns and blanks
\* the right two.
C5_Clip ==
    pc = "clipped" =>
        /\ grid_temp = FlipUd(z_raw)
        /\ Len(grid_temp_clipped) = Len(grid_temp)
        /\ \A r \in 1..Len(grid_temp) :
              /\ Len(grid_temp_clipped[r]) = Len(grid_temp[r])
              /\ \A c \in 1..Len(grid_temp[r]) :
                    LET cell == Footprint(FromOrigin(bounds[1], bounds[4],
                                                     resolution, resolution), r, c)
                    IN  IF \E g \in clip_geoms : Touches(g, cell)
                        THEN grid_temp_clipped[r][c] = grid_temp[r][c]
                        ELSE grid_temp_clipped[r][c] = NaN
        /\ LeftHalfCase =>
              /\ Len(grid_temp_clipped) = 4
              /\ \A r \in 1..4 :
                    /\ Len(grid_temp_clipped[r]) = 4
                    /\ grid_temp_clipped[r][1] = grid_temp[r][1]
                    /\ grid_temp_clipped[r][2] = grid_temp[r][2]
                    /\ grid_temp_clipped[r][1] # NaN
                    /\ grid_temp_clipped[r][2] # NaN
                    /\ grid_temp_clipped[r][3] = NaN
                    /\ grid_temp_clipped[r][4] = NaN

\* the 4 x 4 raster clipped to its left half
C5_Witness ==
    /\ pc = "clipped"
    /\ LeftHalfCase
    /\ Len(grid_temp_clipped) = 4

\* the three tests of load_and_clean_data on one row
Usable(r) ==
    /\ r.val # <<>>
    /\ r.flag \in {"C", "S", "R"}
    /\ r.val # <<9999>>

\* C6: load_and_clean_data returns exactly the input rows, in input order,
\* whose value is present, whose flag is C, S or R and whose value is not 9999.
C6_CleanRows ==
    pc = "loaded" => df = SelectSeq(table.rows, Usable)

\* a table of a usable row and a well-flagged sentinel row
C6_Witness ==
    /\ pc = "loaded"
    /\ Len(df) = 1
    /\ \E k \in 1..Len(table.rows) :
           table.rows[k].val = <<9999>> /\ table.rows[k].flag \in {"C", "S", "R"}

\* C7: a table without the comp_flag_<variable> column ends load_and_clean_data
\* in an error naming that column, whatever else the table holds, before any
\* row is filtered or returned and before any later stage runs.
C7_MissingFlagColumn ==
    (<<"comp_flag_", variable_name>> \notin table.columns) =>
        /\ pc \in {"start", "failed"}
        /\ pc = "failed" =>
              /\ error = [type |-> "ValueError", names |-> <<"comp_flag_", variable_name>>]
              /\ df = <<>>
              /\ stations = NoStations
              /\ filtered = NoPoints
              /\ grid = NoGrid
              /\ krig_calls = <<>>
              /\ grid_temp = <<>>
              /\ grid_temp_clipped = <<>>
              /\ output_file = NoFile

\* the run failed on a table that has rows but neither the flag nor the value column
C7_Witness ==
    /\ pc = "failed"
    /\ table.columns = {}
    /\ Len(table.rows) > 0

\* C8: kriging is never constructed or executed on zero input points: a run
\* left with zero stations fails before the estimator is invoked.
C8_NoKrigingOnZeroPoints ==
    \A k \in 1..Len(krig_calls) : krig_calls[k].n > 0

\* C9: interpolate on an interpolator whose method is neither 'ordinary' nor
\* 'universal' ends in a ValueError naming the method, with no estimator
\* constructed and no estimate produced.
C9_UnsupportedMethod ==
    (interp.method \notin {"unset", "ordinary", "universal"}) =>
        /\ pc = "failed"
        /\ error = [type |-> "ValueError", names |-> interp.method]
        /\ krig_calls = <<>>
        /\ z_raw = <<>>
        /\ grid_temp = <<>>
        /\ output_file = NoFile

\* interpolate was called with method 'simple' on a non-empty station set
C9_Witness ==
    /\ interp.method = "simple"
    /\ Len(filtered.x) > 0
    /\ pc = "failed"

\* C10: in universal mode a run for component 'PR' configures latitude-only
\* drift, runs for CONUS, Alaska and Hawaii latitude plus elevation drift, and
\* ordinary mode configures no drift terms.
C10_DriftByRegion ==
    (interp.method \in {"ordinary", "universal"}) =>
        interp.drift_terms =
            IF interp_method = "universal"
            THEN IF component = "PR"
                 THEN <<"_drift_latitude">>
                 ELSE <<"_drift_latitude", "_drift_elevation">>
            ELSE <<>>

\* C11: _drift_latitude on points whose y coordinates are all equal ends in an
\* error; it returns no value, and so no NaN covariate, to the estimator.
C11_EqualLatitudesFatal ==
    (/\ drift_out # NoDrift
     /\ Len(drift_y) > 0
     /\ \A i, j \in 1..Len(drift_y) : drift_y[i] = drift_y[j])
        => ~drift_out.ok

\* the entries of FIELD_MAP with a mapped source field, in FIELD_MAP order
MappedEntries == SelectSeq(FIELD_MAP, LAMBDA e : e.csv_field # "--")

MappedBefore(i) == Cardinality({k \in 1..i : FIELD_MAP[k].csv_field # "--"})

\* C12: a failed run does not stop the batch loop: the runs attempted so far
\* are exactly the mapped FIELD_MAP entries passed so far, once each and in
\* FIELD_MAP order; at most one child runs at a time, and only after every
\* earlier run has ended; an entry mapped to '--' is never run; when the loop
\* ends every mapped entry has been attempted.
C12_BatchIsolatesFailures ==
    /\ Len(batch_log) = MappedBefore(batch_i)
    /\ \A k \in 1..Len(batch_log) :
          /\ batch_log[k].json_field = MappedEntries[k].json_field
          /\ batch_log[k].csv_field = MappedEntries[k].csv_field
          /\ batch_log[k].csv_field # "--"
    /\ Cardinality(batch_running) <= 1
    /\ \A f \in batch_running :
          /\ batch_i < Len(FIELD_MAP)
          /\ f = FIELD_MAP[batch_i + 1].json_field
          /\ FIELD_MAP[batch_i + 1].csv_field # "--"
    /\ (batch_i = Len(FIELD_MAP)) => Len(batch_log) = Len(MappedEntries)

\* the loop has ended after a run that could not be launched, a later run that
\* exited non-zero, and a last run that succeeded
C12_Witness ==
    /\ batch_i = Len(FIELD_MAP)
    /\ batch_running = {}
    /\ Len(batch_log) = Len(MappedEntries)
    /\ batch_log[1].outcome = "launch_failed"
    /\ batch_log[2].outcome = "nonzero"
    /\ batch_log[Len(batch_log)].outcome = "ok"

\* C13: write_geotiff writes exactly one band, of floating data type and with
\* no-data value NaN, whose height and width are the array's shape; a floating
\* array is written with its dtype and its values, NaN pixels included,
\* unchanged, and a non-floating array is written as float32 (each pixel a
\* float, equal to the integer wherever float32 represents it exactly, that is
\* up to 2^24 in magnitude, and within 1 of it in the range checked).
C13_FloatingBand ==
    (pc = "written") =>
        /\ output_file.exists
        /\ output_file.count = 1
        /\ output_file.nodata = NaN
        /\ output_file.dtype \in {"float16", "float32", "float64"}
        /\ output_file.height = Len(grid_temp_clipped)
        /\ output_file.width = Width(grid_temp_clipped)
        /\ Len(output_file.band1) = output_file.height
        /\ \A r \in 1..output_file.height : Len(output_file.band1[r]) = output_file.width
        /\ IF pixel_dtype \in {"float16", "float32", "float64"}
           THEN /\ output_file.dtype = pixel_dtype
                /\ output_file.band1 = grid_temp_clipped
           ELSE /\ output_file.dtype = "float32"
                /\ \A r \in 1..output_file.height : \A c \in 1..output_file.width :
                      LET n == grid_temp_clipped[r][c]
                          v == output_file.band1[r][c]
                      IN  /\ Len(v) = 1
                          /\ (n <= 16777216 /\ n >= -16777216) => v[1] = n
                          /\ v[1] - n \in -1..1

\* a 2 x 2 int32 array holding 2^24 + 1, which float32 cannot represent, and a
\* negative pixel has been written
C13_Witness ==
    /\ pc = "written"
    /\ pixel_dtype = "int32"
    /\ Len(grid_temp_clipped) = 2
    /\ Width(grid_temp_clipped) = 2
    /\ grid_temp_clipped[1][1] = 16777217
    /\ grid_temp_clipped[2][2] = -3
    /\ output_file.band1[1][1] = <<16777216>>

\* C14 as stated: the raster a second run on identical inputs writes is
\* identical to the raster of the first run, embedded metadata included.
C14_IdenticalReruns ==
    (run = 2 /\ pc = "written") => output_file = first_output

Untimed(file) == [file EXCEPT !.tags.TIFFTAG_DATETIME = 0]

\* C14, amended: the raster a second run on identical inputs writes has the
\* pixel values, shape, data type, transform, CRS and tags of the first run's
\* raster, except for the TIFFTAG_DATETIME tag, which holds the wall-clock
\* second of each write and so never decreases from the first run to the second.
C14_IdenticalExceptTimestamp ==
    (run = 2 /\ pc = "written") =>
        /\ Untimed(output_file) = Untimed(first_output)
        /\ output_file.tags.TIFFTAG_DATETIME >= first_output.tags.TIFFTAG_DATETIME
        /\ output_file.tags.TIFFTAG_DATETIME <= FormatTimestamp(clock)

\* the second run has written, a second or more after the first, a raster
\* with an estimated pixel and a clipped pixel
C14_Witness ==
    /\ run = 2
    /\ pc = "written"
    /\ output_file.tags.TIFFTAG_DATETIME > first_output.tags.TIFFTAG_DATETIME
    /\ output_file.band1[1][1] # NaN
    /\ \E r \in 1..output_file.height : \E c \in 1..output_file.width :
          output_file.band1[r][c] = NaN

\* the rows of climate_normals that match the county_fips filter of the request
NormalsHits ==
    SelectSeq(api_db.climate_normals,
              LAMBDA r : api_request.county_fips = <<>>
                         \/ r["county_fips"] = api_request.county_fips)

\* C16: GET /climate-normals without var, or with a var that is not a valid
\* column, responds 404 when no row matches the filter and otherwise responds
\* successfully with one record per matching row, holding county_fips and
\* every normals value of that row.
C16_NormalsAllColumns ==
    (/\ api_request.path = "/climate-normals"
     /\ \/ api_request.var = <<>>
        \/ api_request.var[1] \notin Range(VariableColumnNames)) =>
        IF Len(NormalsHits) = 0
        THEN api_response.status = 404
        ELSE /\ api_response.status = 200
             /\ Len(api_response.body) = Len(NormalsHits)
             /\ \A k \in 1..Len(NormalsHits) : \A c \in Range(NormalColumnNames) :
                   /\ c \in DOMAIN api_response.body[k]
                   /\ api_response.body[k][c] = NormalsHits[k][c]

\* C17: GET /climate-variables with a valid column as var returns records
\* whose fields are only id, county_id, gwl and that column; with var absent
\* or not a valid column the records hold every climate_variables column.
C17_VariablesSubset ==
    (api_request.path = "/climate-variables" /\ api_response.status = 200) =>
        \A k \in 1..Len(api_response.body) :
            IF api_request.var # <<>> /\ api_request.var[1] \in Range(VariableColumnNames)
            THEN DOMAIN api_response.body[k] =
                     {"id", "county_id", "gwl", api_request.var[1]}
            ELSE Range(VariableColumnNames) \subseteq DOMAIN api_response.body[k]

\* C18: only not-yet-excluded neighbours trigger exclusion in
\* filter_close_points, so every in-bounds input point is retained or lies
\* within distance < the minimum separation of some retained point.
C18_ExcludedNearRetained ==
    pc = "declustered" =>
        \A k \in InBox :
            \E j \in 1..Len(filtered.x) :
                SquaredDistance(stations.x[k], stations.y[k],
                                filtered.x[j], filtered.y[j])
                  < resolution * resolution

\* C19: for every pixel (r, c) of the raster, the grid node whose estimate is
\* stored there lies inside the (closed) footprint that the transform
\* from_origin(x_min, y_max, resolution, resolution) assigns to (r, c), and the
\* nodes of the top row have y equal to the transform's origin y_max.
C19_NodesInFootprint ==
    pc \in {"clipped", "written"} =>
        \A r \in 1..Len(grid_temp) : \A c \in 1..Len(grid_temp[r]) :
            LET node == NodeOfPixel(r, c)
                cell == Footprint(transform_affine, r, c)
            IN  /\ cell.x0 <= node[1] /\ node[1] <= cell.x1
                /\ cell.y0 <= node[2] /\ node[2] <= cell.y1
                /\ r = 1 => node[2] = transform_affine.f

\* last coordinate of an axis that starts at lo / den: hi / den when (hi - lo)
\* is a multiple of step, otherwise strictly between hi / den and
\* hi / den + step / den, which is no coordinate
OvershootsBelowStep(axis, lo, hi, step, den) ==
    LET past == FlAdd(FlOf(hi, den), FlOf(step, den))
        last == axis[Len(axis)]
    IN  /\ Len(axis) >= 1
        /\ IF (hi - lo) % step = 0
           THEN last = FlOf(hi, den)
           ELSE FlLess(FlOf(hi, den), last) /\ FlLess(last, past)
        /\ \A k \in 1..Len(axis) : axis[k] # past

\* C20: create_grid overshoots the upper bound by less than one step: when
\* (max - min) is a multiple of the resolution the last coordinate is max and
\* max + resolution is no coordinate; otherwise max < last < max + resolution.
C20_OvershootBelowStep ==
    pc = "gridded" =>
        /\ OvershootsBelowStep(GridXF64, bounds[1], bounds[2], resolution, unit_den)
        /\ OvershootsBelowStep(GridYF64, bounds[3], bounds[4], resolution, unit_den)

\* input station k of filter_close_points lies strictly outside the bounding box
StrictlyOutside(k) ==
    \/ stations.x[k] < bounds[1] \/ stations.x[k] > bounds[2]
    \/ stations.y[k] < bounds[3] \/ stations.y[k] > bounds[4]

\* input station k is among the returned points, with its own value
Retained(k) ==
    \E j \in 1..Len(filtered.x) :
        /\ filtered.x[j] = stations.x[k]
        /\ filtered.y[j] = stations.y[k]
        /\ filtered.values[j] = df[k].val[1]

\* C21: filter_close_points discards the points strictly outside the bounding
\* box before any distance comparison: no returned point lies outside the box,
\* and a point inside or on the boundary of the box that has no other such
\* point within the minimum separation is returned, however close discarded
\* points are.
C21_OutOfBoundsDiscardedFirst ==
    pc = "declustered" =>
        /\ \A k \in 1..Len(stations.x) : StrictlyOutside(k) => ~Retained(k)
        /\ \A k \in 1..Len(stations.x) :
              (/\ ~StrictlyOutside(k)
               /\ \A i \in 1..Len(stations.x) :
                     (i # k /\ ~StrictlyOutside(i)) =>
                         SquaredDistance(stations.x[i], stations.y[i],
                                         stations.x[k], stations.y[k])
                           >= resolution * resolution)
                  => Retained(k)

\* a point on the boundary of the box was returned although an earlier,
\* discarded point outside the box lies within the minimum separation of it
C21_Witness ==
    /\ pc = "declustered"
    /\ \E k \in 1..Len(stations.x) : \E o \in 1..Len(stations.x) :
          /\ o < k
          /\ StrictlyOutside(o)
          /\ ~StrictlyOutside(k)
          /\ stations.x[k] = bounds[1]
          /\ SquaredDistance(stations.x[o], stations.y[o],
                             stations.x[k], stations.y[k]) < resolution * resolution
          /\ Retained(k)

\* the input stations whose value is the j-th returned value
OriginsOf(j) == {k \in 1..Len(stations.x) : df[k].val[1] = filtered.values[j]}

\* C22: the output of filter_close_points is an order-preserving subsequence
\* of its input: the j-th returned x, y and value all come from one input
\* station, and the returned points keep the relative order of the input.
C22_OrderedAlignedSubsequence ==
    pc = "declustered" =>
        /\ Len(filtered.y) = Len(filtered.x)
        /\ Len(filtered.values) = Len(filtered.x)
        /\ \A j \in 1..Len(filtered.x) :
              \E k \in OriginsOf(j) :
                  filtered.x[j] = stations.x[k] /\ filtered.y[j] = stations.y[k]
        /\ \A i, j \in 1..Len(filtered.x) :
              i < j => \A a \in OriginsOf(i) : \A b \in OriginsOf(j) : a < b

\* two points were returned, after an out-of-bounds first station was
\* discarded and a station between the two was excluded
C22_Witness ==
    /\ pc = "declustered"
    /\ Len(filtered.x) = 2
    /\ StrictlyOutside(1)
    /\ \E a \in OriginsOf(1) : \E b \in OriginsOf(2) :
          \E m \in 1..Len(stations.x) :
              a < m /\ m < b /\ ~StrictlyOutside(m) /\ ~Retained(m)

\* the DEM configured for a region
RegionDem(comp) ==
    IF comp = "Alaska" THEN "data/ancillary/alaska_30as_dem.tif"
    ELSE IF comp = "Hawaii" THEN "data/ancillary/hawaii_30as_dem.tif"
    ELSE "data/ancillary/nation_30as_dem.tif"

\* C23: in a pipeline run for a region that uses elevation drift, the
\* elevation drift function opens the DEM configured for that region, and the
\* only failure raised on account of the DEM path is the 'DEM filepath not
\* provided' error.
C23_RegionDemOpened ==
    (interp.method = "universal" /\ drift_out # NoDrift) =>
        IF drift_out.ok
        THEN drift_out.dem = RegionDem(component)
        ELSE drift_out.error.type = "ValueError"

\* the points of a run, in the order of the calls of create_measurement_grid
StageOrder ==
    << "start", "loaded", "transformed", "declustered", "gridded", "interpolated",
       "clipped", "written" >>

\* one step of a run: the next stage has returned, or the current one has raised
StageStep ==
    \/ \E k \in 1..(Len(StageOrder) - 1) : pc = StageOrder[k] /\ pc' = StageOrder[k + 1]
    \/ pc \notin {"written", "failed"} /\ pc' = "failed"

\* C24: within a run the stages execute in the order load, transform,
\* decluster, build grid, interpolate, clip, write, one at a time; the output
\* file is created or modified only by the write stage, the last step, reached
\* only when every earlier stage has returned; a run that fails in an earlier
\* stage leaves the output file as it was.
C24_StagesInOrder ==
    [][ /\ (pc' # pc /\ run' = run) => StageStep
        /\ (run' # run) => (pc = "written" /\ pc' = "start" /\ output_file' = output_file)
        /\ (output_file' # output_file) => (pc = "clipped" /\ pc' \in {"written", "failed"})
        /\ (pc' = "failed" /\ pc # "clipped") => output_file' = output_file
        /\ (pc' = "written" /\ pc # "written") =>
                               (/\ pc = "clipped"
                                /\ error' = NoError
                                /\ Len(grid_temp) > 0
                                /\ output_file'.band1 = grid_temp_clipped) ]_vars

\* the second run failed in the interpolation stage and the raster of the
\* first run is still in place, unmodified
C24_Witness ==
    /\ run = 2
    /\ pc = "failed"
    /\ error # NoError
    /\ output_file.exists
    /\ output_file = first_output

\* the batch loop has ended and every run it made succeeded
BatchFullySuccessful ==
    /\ batch_i = Len(FIELD_MAP)
    /\ batch_running = {}
    /\ \A k \in 1..Len(batch_log) : batch_log[k].outcome = "ok"

\* C25: the driving process runs the pipeline once for every (variable,
\* region) pair, so that after a fully successful batch each mapped variable
\* has an output raster for each of CONUS, Alaska, Hawaii and Puerto Rico (the
\* four rasters the county aggregator reads for it).
C25_EveryPairRun ==
    BatchFullySuccessful =>
        \A e \in Range(MappedEntries) : \A n \in 1..4 :
            Cardinality({k \in 1..Len(batch_log) :
                            batch_log[k].output_path = RasterFileSet(e.json_field)[n]}) = 1

\* C26: the runs of one batch write to pairwise distinct output paths: no
\* two runs issued for different FIELD_MAP entries share their output file.
C26_DistinctOutputPaths ==
    \A i, j \in 1..Len(batch_log) :
        i # j => /\ batch_log[i].json_field # batch_log[j].json_field
                 /\ batch_log[i].output_path # batch_log[j].output_path

\* the loop has ended with every mapped entry run, at least two successfully
C26_Witness ==
    /\ batch_i = Len(FIELD_MAP)
    /\ Len(batch_log) = Len(MappedEntries)
    /\ batch_log[1].outcome = "ok"
    /\ batch_log[2].outcome = "ok"
    /\ batch_log[3].outcome = "nonzero"

\* C27: the lag count given as --nlags on the command line is the nlags
\* passed to the kriging estimator of the run, in ordinary and universal mode.
C27_NlagsHonoured ==
    \A k \in 1..Len(krig_calls) : krig_calls[k].nlags = args_nlags

\* the input stations inside or on the boundary of the bounding box
Inside == {k \in 1..Len(stations.x) : ~StrictlyOutside(k)}

\* C28: filter_close_points always returns the first in-bounds point of its
\* input, as the first point of its output; its output is empty exactly when
\* no input point lies inside the bounding box.
C28_FirstInBoundsRetained ==
    pc = "declustered" =>
        /\ (Len(filtered.x) = 0) <=> (Inside = {})
        /\ Inside # {} =>
              /\ filtered.x[1] = stations.x[Min(Inside)]
              /\ filtered.y[1] = stations.y[Min(Inside)]
              /\ filtered.values[1] = df[Min(Inside)].val[1]

\* four stations, the first outside the box and the other three inside it
\* and within the minimum separation of each other: one point is returned
C28_Witness ==
    /\ pc = "declustered"
    /\ Len(stations.x) = 4
    /\ Inside = {2, 3, 4}
    /\ Len(filtered.x) = 1
    /\ filtered.values[1] = df[2].val[1]

(***************************************************************************)
(* C29: the frame collected for a variable comes only from that variable's *)
(* own rasters                                                             *)
(***************************************************************************)
\* C29: every frame main has appended to all_results belongs to the variable
\* of its position and was computed from at least one of that variable's own
\* raster files, so a variable with no raster on disk never stands in the
\* list with the frame of a variable processed before it
C29_OwnRastersOnly ==
    \A k \in 1..Len(agg_all) :
        /\ agg_all[k].var = AggVariables[k]
        /\ Len(agg_all[k].sources) > 0
        /\ Range(agg_all[k].sources) \subseteq Range(RasterFileSet(AggVariables[k]))

(***************************************************************************)
(* C30: a normal return of download_noaa_normals means the archive is      *)
(* complete and extracted                                                  *)
(***************************************************************************)
\* C30: whenever the latest invocation of download_noaa_normals has returned
\* normally, whatever happened in the invocations before it, the archive file
\* holds every chunk and every member of it is extracted into src_dir
C30_NormalReturnMeansComplete ==
    (dl_pc = "idle" /\ dl_result = "returned") =>
        (Downloaded /\ dl_extracted = ArchiveMembers)

====
